---- MODULE Spec2Model ----
(***************************************************************************)
(* Voice-memo pipeline of astra: the state ledger (StateService), the      *)
(* discovery pass (FileWatcher.watch), the retry loops of the network      *)
(* bound services, the item sync (NotionSyncService.sync) and the          *)
(* orchestrator (VoiceMemoJob.execute / processFile), with crashes and     *)
(* restarts of the process.                                                *)
(***************************************************************************)
EXTENDS Integers, Sequences, FiniteSets, TLC

VARIABLES
  dir,         \* filenames present in the voice memo directory
  mem,         \* StateService.state.jobs of the running process
  disk,        \* the document persisted at the state file
  archiveDir,  \* filenames copied to the processed archive
  failedDir,   \* filenames copied to the failed archive
  invalidDir,  \* filenames copied to the invalid archive
  maxRetries,  \* parseInt(env.MAX_RETRIES), fixed at construction
  pc,          \* position of the orchestrator
  batch,       \* newFiles still to be handled by the for loop of execute
  ctx,         \* locals of processFile for the recording being handled
  items,       \* the item list handed to NotionSyncService.sync under test
  lastSync,    \* SyncResult of the last NotionSyncService.sync call
  syncCount,   \* per filename, destination syncs carried out to completion
  selected,    \* recordings returned by the last discovery pass
  rt,          \* one service call under test: its inputs and its trace
  fs,          \* the state file and its temporary file, as the disk holds them
  pages,       \* the pages of the journal database of the destination
  entries,     \* the results of the journal syncs carried out, in order
  birthtime,   \* per recording, the creation time that stat reports
  now,         \* the wall clock
  jobList,     \* JobScheduler.jobs: the registered jobs and their enabled flag
  intervals,   \* JobScheduler.intervals: the timers the scheduler holds
  timers,      \* the interval timers that are active in the event loop
  inflight,    \* the execute calls that have begun and not yet settled
  invoked,     \* per job, the execute calls begun
  settled,     \* per job, the execute calls that ran to their end
  logged,      \* the error lines written by the scheduler
  enabledAtStart, \* the jobs that were enabled at a start() since the last stop()
  runs,        \* per execute call of the voice memo job: its position and batch
  schema,      \* NotionSchema: the enumerations fetched from the destination
  service      \* the StateService in use: its copy of the class and its path

coreVars == <<dir, mem, disk, archiveDir, failedDir, invalidDir, maxRetries,
              pc, batch, ctx, items, lastSync, syncCount, selected, rt>>

saveVars == <<fs, service>>

journalVars == <<pages, entries, birthtime, now>>

schedVars == <<jobList, intervals, timers, inflight, invoked, settled, logged,
               enabledAtStart>>

overlapVars == <<runs>>

schemaVars == <<schema>>

extVars == <<saveVars, journalVars, schedVars, overlapVars, schemaVars>>

vars == <<dir, mem, disk, archiveDir, failedDir, invalidDir, maxRetries, pc,
          batch, ctx, items, lastSync, syncCount, selected, rt, fs, pages,
          entries, birthtime, now, jobList, intervals, timers, inflight,
          invoked, settled, logged, enabledAtStart, runs, schema, service>>

----------------------------------------------------------------------------
(* Bounds of the model *)

MaxRetriesBound == 4
MaxItems == 3
MaxSyncCount == 2
MaxChunks == 2
MaxEntries == 3
MaxTimers == 3
MaxInvocations == 2

----------------------------------------------------------------------------
(* Small helpers *)

Range(s) == {s[i] : i \in 1..Len(s)}

Min(a, b) == IF a < b THEN a ELSE b

----------------------------------------------------------------------------
(* Recordings and the voice memo directory *)

Files == {"a.m4a", "b.WAV", "readme.txt"}

\* the order in which readdirSync lists the directory
FileOrder == <<"a.m4a", "b.WAV", "readme.txt">>

\* file.split('.').pop()
ExtOf(file) ==
  CASE file = "a.m4a" -> "m4a"
    [] file = "b.WAV" -> "WAV"
    [] file = "readme.txt" -> "txt"
    [] OTHER -> file

\* String.prototype.toLowerCase on the extensions that occur
toLowerCase(s) ==
  CASE s = "WAV" -> "wav"
    [] s = "M4A" -> "m4a"
    [] OTHER -> s

----------------------------------------------------------------------------
(* StateService: the ledger.  A job state is a JavaScript object; its      *)
(* keys are identifiers and the key 'failed'.  A value is a string, an     *)
(* array of identifiers, or absent.                                        *)

Namespaces == {"voiceMemo", "journalProcessing"}

Keys == Files \cup {"failed"}

Absent == [t |-> "absent", s |-> "", a |-> <<>>]
Str(x) == [t |-> "str", s |-> x, a |-> <<>>]
Arr(q) == [t |-> "arr", s |-> "", a |-> q]

EmptyObject == [k \in Keys |-> Absent]

\* state.jobs[jobName] is undefined
NoJob == [present |-> FALSE, js |-> EmptyObject]

Job(js) == [present |-> TRUE, js |-> js]

\* private state: AppState = { jobs: {} }
EmptyLedger == [n \in Namespaces |-> NoJob]

\* JavaScript truthiness of a value of a job state
Truthy(v) == \/ v.t = "arr"
             \/ v.t = "str" /\ v.s # ""

\* any recorded value counts as processed
isJobProcessed_Truthy(jobs, jobName, identifier) ==
  IF ~jobs[jobName].present THEN FALSE
  ELSE Truthy(jobs[jobName].js[identifier])

\* typeof jobState === 'object' holds of every job state that occurs
isJobProcessed(jobs, jobName, identifier) ==
  IF ~jobs[jobName].present THEN FALSE
  ELSE jobs[jobName].js[identifier] = Str("completed")

\* the in-memory effect of markJobCompleted, before save()
markJobCompleted(jobs, jobName, identifier) ==
  LET base == IF ~jobs[jobName].present THEN EmptyObject ELSE jobs[jobName].js
  IN [jobs EXCEPT ![jobName] =
        Job([base EXCEPT ![identifier] = Str("completed")])]

\* currentState.failed of an undefined currentState raises a TypeError, and
\* so does push on a failed value that is a string not containing the
\* identifier (String.includes is taken as equality on the values that occur)
markJobFailedThrows(jobs, jobName, identifier) ==
  \/ ~jobs[jobName].present
  \/ /\ jobs[jobName].js["failed"].t = "str"
     /\ Truthy(jobs[jobName].js["failed"])
     /\ jobs[jobName].js["failed"].s # identifier

\* the in-memory effect of markJobFailed when it does not raise; the body
\* never reads its reason parameter
markJobFailed(jobs, jobName, identifier, reason) ==
  LET currentState == jobs[jobName].js
      failed == IF ~Truthy(currentState["failed"]) THEN <<>>
                ELSE currentState["failed"].a
  IN IF currentState["failed"].t = "str" /\ Truthy(currentState["failed"])
     THEN jobs
     ELSE [jobs EXCEPT ![jobName] =
             Job([currentState EXCEPT !["failed"] =
                    Arr(IF identifier \in Range(failed) THEN failed
                        ELSE Append(failed, identifier))])]

\* return this.state.jobs[jobName] || {}
getJobState(jobs, jobName) ==
  IF jobs[jobName].present THEN jobs[jobName].js ELSE EmptyObject

\* the whole jobs map replaced by the one namespace
saveJobState_ReplaceAll(jobs, jobName, jobState) ==
  [n \in Namespaces |-> IF n = jobName THEN Job(jobState) ELSE NoJob]

\* the in-memory effect of saveJobState, before save()
saveJobState(jobs, jobName, jobState) ==
  [jobs EXCEPT ![jobName] = Job(jobState)]

\* the filenames recorded as completed, and as failed, under a namespace
CompletedIn(jobs, jobName) ==
  {f \in Files : jobs[jobName].present
                 /\ jobs[jobName].js[f] = Str("completed")}

FailedIn(jobs, jobName) ==
  IF jobs[jobName].present /\ jobs[jobName].js["failed"].t = "arr"
  THEN Range(jobs[jobName].js["failed"].a) \cap Files
  ELSE {}

----------------------------------------------------------------------------
(* FileWatcher.watch *)

jobName == "voiceMemo"

isAudioFile(file) ==
  LET ext == toLowerCase(ExtOf(file))
  IN ext = "m4a" \/ ext = "wav"

watch(jobs, d) ==
  LET listed(f) == f \in d
      files == SelectSeq(FileOrder, listed)
      audioFiles == SelectSeq(files, isAudioFile)
      isNew(f) == ~isJobProcessed(jobs, jobName, f)
  IN SelectSeq(audioFiles, isNew)

----------------------------------------------------------------------------
(* The retry loops.  An attempt's outcome is what the collaborator does on *)
(* that attempt; the trace lists the loop iterations, the outbound calls   *)
(* and the backoff sleeps in order.                                        *)

HttpErrors == {"http400", "http429", "http500"}

StatusOf(o) ==
  CASE o = "http400" -> 400
    [] o = "http429" -> 429
    [] o = "http500" -> 500
    [] OTHER -> 200

nonRetryableStatusCodes == {400, 401, 403, 404, 408, 410, 429, 451}

backoffDelays == <<1000, 5000, 30000>>

EvAttempt == [e |-> "attempt", ms |-> 0, msg |-> ""]
EvCall == [e |-> "call", ms |-> 0, msg |-> ""]
EvSleep(d) == [e |-> "sleep", ms |-> d, msg |-> ""]

\* lastError = ...
EvError(msg) == [e |-> "error", ms |-> 0, msg |-> msg]

\* the message a step assigns to lastError after an attempt outcome
ErrorMessage(step, o) ==
  CASE o \in {"http400", "http429", "http500"} -> <<"API error: ", o>>
    [] o = "empty" /\ step = "transcribe" -> <<"No response returned from API">>
    [] o = "empty" /\ step = "transcribePlain" ->
         <<"No transcription text returned from API">>
    [] o = "empty" -> <<"No text returned from API">>
    [] o = "badjson" /\ step = "transcribe" ->
         <<"Invalid JSON response from transcription API">>
    [] o = "badjson" -> <<"Invalid JSON response from AI">>
    [] OTHER -> <<"error.message of ", o>>

Err(ev, step, o) == Append(ev, EvError(ErrorMessage(step, o)))

\* the first message assigned, whatever was assigned afterwards
lastError_First(ev) ==
  LET errors == SelectSeq(ev, LAMBDA x : x.e = "error")
  IN IF errors = <<>> THEN <<>> ELSE errors[1].msg

\* the value of lastError: '' until the first assignment
lastError(ev) ==
  LET errors == SelectSeq(ev, LAMBDA x : x.e = "error")
  IN IF errors = <<>> THEN <<>> ELSE errors[Len(errors)].msg

\* backoffDelays[attempt] || 30000
Delay(attempt) ==
  IF attempt + 1 <= Len(backoffDelays) THEN backoffDelays[attempt + 1]
  ELSE 30000

Backoff_Always(ev, attempt, max) == Append(ev, EvSleep(Delay(attempt)))

\* if (attempt < this.maxRetries - 1) { await this.sleep(delay) }
Backoff(ev, attempt, max) ==
  IF attempt < max - 1 THEN Append(ev, EvSleep(Delay(attempt))) ELSE ev

\* { ..., success: true } or { ..., success: false, error: lastError }
RetryResult(success, ev) ==
  [success |-> success, ev |-> ev,
   error |-> IF success THEN <<>> ELSE lastError(ev)]

\* TranscriptionService.transcribe with quality assessment and intent
RECURSIVE transcribe(_, _, _, _)
transcribe(outcomes, max, attempt, ev) ==
  IF ~(attempt < max) THEN RetryResult(FALSE, ev)
  ELSE
    LET o == outcomes[attempt + 1]
        ev0 == Append(ev, EvAttempt)
        ev1 == Append(ev0, EvCall)
    IN CASE o = "readfail" ->
              transcribe(outcomes, max, attempt + 1,
                  Backoff(Err(ev0, "transcribe", o), attempt, max))
         [] o = "throw" ->
              transcribe(outcomes, max, attempt + 1,
                  Backoff(Err(ev1, "transcribe", o), attempt, max))
         [] o \in HttpErrors ->
              IF StatusOf(o) \in nonRetryableStatusCodes
              THEN RetryResult(FALSE, Err(ev1, "transcribe", o))
              ELSE transcribe(outcomes, max, attempt + 1,
                              Backoff(Err(ev1, "transcribe", o), attempt, max))
         [] o = "empty" -> transcribe(outcomes, max, attempt + 1,
             Err(ev1, "transcribe", o))
         [] o = "badjson" -> transcribe(outcomes, max, attempt + 1,
             Err(ev1, "transcribe", o))
         [] OTHER -> RetryResult(TRUE, ev1)

\* TranscriptionService.transcribe, plain transcription: any non-empty text
\* of a successful response is the transcript
RECURSIVE transcribePlain(_, _, _, _)
transcribePlain(outcomes, max, attempt, ev) ==
  IF ~(attempt < max) THEN RetryResult(FALSE, ev)
  ELSE
    LET o == outcomes[attempt + 1]
        ev0 == Append(ev, EvAttempt)
        ev1 == Append(ev0, EvCall)
    IN CASE o = "readfail" ->
              transcribePlain(outcomes, max, attempt + 1,
                              Backoff(Err(ev0, "transcribePlain", o),
                                      attempt, max))
         [] o = "throw" ->
              transcribePlain(outcomes, max, attempt + 1,
                              Backoff(Err(ev1, "transcribePlain", o),
                                      attempt, max))
         [] o \in HttpErrors ->
              transcribePlain(outcomes, max, attempt + 1,
                              Backoff(Err(ev1, "transcribePlain", o),
                                      attempt, max))
         [] o = "empty" -> transcribePlain(outcomes, max, attempt + 1,
             Err(ev1, "transcribePlain", o))
         [] OTHER -> RetryResult(TRUE, ev1)

\* OrganizationService.organize
RECURSIVE organize(_, _, _, _)
organize(outcomes, max, attempt, ev) ==
  IF ~(attempt < max) THEN RetryResult(FALSE, ev)
  ELSE
    LET o == outcomes[attempt + 1]
        ev1 == Append(Append(ev, EvAttempt), EvCall)
    IN CASE o = "throw" ->
              organize(outcomes, max, attempt + 1,
                  Backoff(Err(ev1, "organize", o), attempt, max))
         [] o \in HttpErrors ->
              organize(outcomes, max, attempt + 1,
                  Backoff(Err(ev1, "organize", o), attempt, max))
         [] o = "empty" -> organize(outcomes, max, attempt + 1,
             Err(ev1, "organize", o))
         [] o = "badjson" ->
              organize(outcomes, max, attempt + 1,
                  Backoff(Err(ev1, "organize", o), attempt, max))
         [] OTHER -> RetryResult(TRUE, ev1)

\* JournalService.format
RECURSIVE format(_, _, _, _)
format(outcomes, max, attempt, ev) ==
  IF ~(attempt < max) THEN RetryResult(FALSE, ev)
  ELSE
    LET o == outcomes[attempt + 1]
        ev1 == Append(Append(ev, EvAttempt), EvCall)
    IN CASE o = "throw" ->
              format(outcomes, max, attempt + 1,
                  Backoff(Err(ev1, "format", o), attempt, max))
         [] o \in HttpErrors ->
              format(outcomes, max, attempt + 1,
                  Backoff(Err(ev1, "format", o), attempt, max))
         [] o = "empty" -> format(outcomes, max, attempt + 1,
             Err(ev1, "format", o))
         [] OTHER -> RetryResult(TRUE, ev1)

\* JournalNotionService.syncEntry: findTodayPage, then appendEntry or
\* createDayPage; whatever raises is caught by the loop
RECURSIVE syncEntry(_, _, _, _)
syncEntry(outcomes, max, attempt, ev) ==
  IF ~(attempt < max) THEN RetryResult(FALSE, ev)
  ELSE
    LET o == outcomes[attempt + 1]
        ev1 == Append(Append(ev, EvAttempt), EvCall)
        ev2 == Append(ev1, EvCall)
    IN CASE o = "queryfail" ->
              syncEntry(outcomes, max, attempt + 1,
                  Backoff(Err(ev1, "syncEntry", o), attempt, max))
         [] o = "writefail" ->
              syncEntry(outcomes, max, attempt + 1,
                  Backoff(Err(ev2, "syncEntry", o), attempt, max))
         [] OTHER -> RetryResult(TRUE, ev2)

\* NotionSyncService.createTodo and createNote: the last failed attempt
\* rethrows; a loop that never runs returns normally
RECURSIVE createItem(_, _, _, _)
createItem(outcomes, max, attempt, ev) ==
  IF ~(attempt < max) THEN RetryResult(TRUE, ev)
  ELSE
    LET o == outcomes[attempt + 1]
        ev1 == Append(Append(ev, EvAttempt), EvCall)
    IN IF o = "throw"
       THEN IF attempt < max - 1
            THEN createItem(outcomes, max, attempt + 1,
                            Backoff(ev1, attempt, max))
            ELSE RetryResult(FALSE, ev1)
       ELSE RetryResult(TRUE, ev1)

Calls(ev) == Len(SelectSeq(ev, LAMBDA x : x.e = "call"))
Attempts(ev) == Len(SelectSeq(ev, LAMBDA x : x.e = "attempt"))
Sleeps(ev) == SelectSeq(ev, LAMBDA x : x.e = "sleep")

\* the attempt outcomes a step can meet
StepKinds(step) ==
  CASE step = "transcribe" ->
         {"ok", "readfail", "throw", "empty", "badjson"} \cup HttpErrors
    [] step = "transcribePlain" ->
         {"ok", "readfail", "throw", "empty"} \cup HttpErrors
    [] step = "organize" -> {"ok", "throw", "empty", "badjson"} \cup HttpErrors
    [] step = "format" -> {"ok", "throw", "empty"} \cup HttpErrors
    [] step = "syncEntry" -> {"ok", "queryfail", "writefail"}
    [] OTHER -> {"ok", "throw"}

Steps == {"transcribe", "transcribePlain", "organize", "format", "syncEntry",
          "createItem"}

RunStep(step, outcomes, max) ==
  CASE step = "transcribe" -> transcribe(outcomes, max, 0, <<>>)
    [] step = "transcribePlain" -> transcribePlain(outcomes, max, 0, <<>>)
    [] step = "organize" -> organize(outcomes, max, 0, <<>>)
    [] step = "format" -> format(outcomes, max, 0, <<>>)
    [] step = "syncEntry" -> syncEntry(outcomes, max, 0, <<>>)
    [] OTHER -> createItem(outcomes, max, 0, <<>>)

\* what the collaborator does on each of max attempts
OutcomeSeqs(kinds, max) == [1..max -> kinds]

\* the collaborator behaves the same way on every attempt
SteadyOutcomes(kinds, max) ==
  {o \in OutcomeSeqs(kinds, max) : \A i, j \in 1..max : o[i] = o[j]}

\* a create call raises on the first k attempts and succeeds afterwards
ThrowThenOk(max) ==
  {[i \in 1..max |-> IF i <= k THEN "throw" ELSE "ok"] : k \in 0..max}

----------------------------------------------------------------------------
(* NotionSyncService.sync *)

\* the select options of the priority and category properties, as fetched
\* from the two databases at startup
DefaultSchema == [priorities |-> {"asap", "soon", "eventually"},
                  categories |-> {"general", "project idea"}]

\* the destination's category property may or may not have a general option
Schemas ==
  {DefaultSchema, [DefaultSchema EXCEPT !.categories = {"project idea"}]}

\* this.schema.priorities, this.schema.categories
SchemaPriorities == schema.priorities
SchemaCategories == schema.categories

\* the select value of the page a create call submits
createTodoRecord(item) == [database |-> "todo", name |-> item.priority]

\* category: { select: { name: item.category || 'general' } }
createNoteRecord(item) ==
  [database |-> "notes",
   name |-> IF item.category # "" THEN item.category ELSE "general"]

\* sync calls createTodo for a TODO and createNote for every other item
recordOf(item) ==
  IF item.type = "TODO" THEN createTodoRecord(item) ELSE createNoteRecord(item)

TodoItem(priority) == [type |-> "TODO", priority |-> priority, category |-> ""]
NoteItem(category) == [type |-> "NOTE", priority |-> "asap",
                       category |-> category]

\* the items the extractor can return; "" is a category left out
ItemUniverse == {TodoItem("asap"), TodoItem("urgent"),
                 NoteItem("general"), NoteItem("bogus"), NoteItem("")}

ItemLists == UNION {[1..n -> ItemUniverse] : n \in 0..MaxItems}

\* the item lists the orchestrator is run on
TodoLists ==
  UNION {[1..n -> {TodoItem("asap"), TodoItem("urgent")}] : n \in 0..MaxItems}

validateItem_AcceptAll(item) == TRUE

validateItem(item) ==
  IF item.type = "TODO"
  THEN item.priority \in SchemaPriorities
  ELSE IF item.type = "NOTE"
       THEN ~(item.category # "" /\ item.category \notin SchemaCategories)
       ELSE TRUE

\* const result: SyncResult = { itemsCreated: 0, itemsFailed: 0, ... }
EmptySyncResult ==
  [itemsCreated |-> 0, itemsFailed |-> 0, success |-> TRUE, calls |-> <<>>]

\* an item that fails validation leaves the result as it was
handleItem_SkipInvalid(item, out, max, result) ==
  IF ~validateItem(item)
  THEN [result EXCEPT !.calls = Append(@, 0)]
  ELSE
    LET r == createItem(out, max, 0, <<>>)
    IN IF r.success
       THEN [result EXCEPT !.itemsCreated = @ + 1,
                           !.calls = Append(@, Calls(r.ev))]
       ELSE [result EXCEPT !.itemsFailed = @ + 1,
                           !.success = FALSE,
                           !.calls = Append(@, Calls(r.ev))]

\* the body of the for loop of sync for one item; calls holds, per item,
\* the number of create calls issued for it
handleItem(item, out, max, result) ==
  IF ~validateItem(item)
  THEN [result EXCEPT !.itemsFailed = @ + 1,
                      !.calls = Append(@, 0)]
  ELSE
    LET r == createItem(out, max, 0, <<>>)
    IN IF r.success
       THEN [result EXCEPT !.itemsCreated = @ + 1,
                           !.calls = Append(@, Calls(r.ev))]
       ELSE [result EXCEPT !.itemsFailed = @ + 1,
                           !.success = FALSE,
                           !.calls = Append(@, Calls(r.ev))]

\* the for loop of sync from item i on
RECURSIVE sync(_, _, _, _, _)
sync(its, outs, max, i, result) ==
  IF i > Len(its) THEN result
  ELSE sync(its, outs, max, i + 1, handleItem(its[i], outs[i], max, result))

----------------------------------------------------------------------------
(* VoiceMemoJob.detectIntent.  A transcript is a sequence of characters.   *)

Transcripts ==
  << <<"t", "o", "d", "o", ":", " ", "x">>,
     <<" ", "T", "o", "-", "D", "o", ".", "x">>,
     <<"N", "o", "t", "e", ",", " ", "x">>,
     <<"t", "o", "d", "o">>,
     <<"x", " ", "y">> >>

IsSpace(c) == c \in {" ", "\t", "\n"}

Lower(c) ==
  CASE c = "T" -> "t" [] c = "O" -> "o" [] c = "D" -> "d"
    [] c = "N" -> "n" [] c = "E" -> "e" [] c = "J" -> "j" [] OTHER -> c

RECURSIVE trimStart(_)
trimStart(s) ==
  IF s # <<>> /\ IsSpace(Head(s)) THEN trimStart(Tail(s)) ELSE s

RECURSIVE trimEnd(_)
trimEnd(s) ==
  IF s # <<>> /\ IsSpace(s[Len(s)])
  THEN trimEnd(SubSeq(s, 1, Len(s) - 1)) ELSE s

trim(s) == trimEnd(trimStart(s))

\* the literal lit occurs in s at position i, ignoring case
MatchAt(s, i, lit) ==
  /\ i + Len(lit) - 1 <= Len(s)
  /\ \A k \in 1..Len(lit) : Lower(s[i + k - 1]) = lit[k]

\* the character at position i of s is in the class cls or is white space
ClassAt(s, i, cls) == i <= Len(s) /\ (s[i] \in cls \/ IsSpace(s[i]))

\* the NOTE test left out
detectIntent_TodoOnly(transcript) ==
  LET text == trim(transcript)
  IN IF /\ MatchAt(text, 1, <<"t", "o">>)
        /\ \/ MatchAt(text, 3, <<"d", "o">>) /\ ClassAt(text, 5, {",", ":", "."})
           \/ /\ ClassAt(text, 3, {"-"})
              /\ MatchAt(text, 4, <<"d", "o">>)
              /\ ClassAt(text, 6, {",", ":", "."})
     THEN "TODO"
     ELSE "JOURNAL"

detectIntent(transcript) ==
  LET text == trim(transcript)
  IN IF /\ MatchAt(text, 1, <<"t", "o">>)
        /\ \/ MatchAt(text, 3, <<"d", "o">>) /\ ClassAt(text, 5, {",", ":", "."})
           \/ /\ ClassAt(text, 3, {"-"})
              /\ MatchAt(text, 4, <<"d", "o">>)
              /\ ClassAt(text, 6, {",", ":", "."})
     THEN "TODO"
     ELSE IF /\ MatchAt(text, 1, <<"n", "o", "t", "e">>)
             /\ ClassAt(text, 5, {",", ":", "."})
          THEN "NOTE"
          ELSE "JOURNAL"

----------------------------------------------------------------------------
(* Dates.  A Date is a count of days since 1970-01-01 and a second of the  *)
(* day, in local time; the process runs in one time zone.                  *)

NullDate == [t |-> "null", day |-> 0, sec |-> 0]

DateOf(day, sec) == [t |-> "date", day |-> day, sec |-> sec]

\* the day number of the civil date year-month-day (month 1..12, any day)
DaysFromCivil(year, month, day) ==
  LET y == IF month <= 2 THEN year - 1 ELSE year
      era == y \div 400
      yoe == y - era * 400
      mp == (month + 9) % 12
      doy == (153 * mp + 2) \div 5 + day - 1
      doe == yoe * 365 + yoe \div 4 - yoe \div 100 + doy
  IN era * 146097 + doe - 719468

\* the civil date <<year, month, day>> of a day number
CivilFromDays(days) ==
  LET z == days + 719468
      era == z \div 146097
      doe == z - era * 146097
      yoe == (doe - doe \div 1460 + doe \div 36524 - doe \div 146096) \div 365
      doy == doe - (365 * yoe + yoe \div 4 - yoe \div 100)
      mp == (5 * doy + 2) \div 153
      d == doy - (153 * mp + 2) \div 5 + 1
      m == IF mp < 10 THEN mp + 3 ELSE mp - 9
      y == yoe + era * 400
  IN <<IF m <= 2 THEN y + 1 ELSE y, m, d>>

\* new Date(year, monthIndex, day, hours, minutes, seconds): fields out of
\* their range carry over, and a year 0..99 is a year of the 1900s
NewDate(year, monthIndex, day, hours, minutes, seconds) ==
  LET fullYear == IF year >= 0 /\ year <= 99 THEN 1900 + year ELSE year
      y == fullYear + monthIndex \div 12
      m == monthIndex % 12
      total == hours * 3600 + minutes * 60 + seconds
  IN DateOf(DaysFromCivil(y, m + 1, 1) + (day - 1) + total \div 86400,
            total % 86400)

getFullYear(date) == CivilFromDays(date.day)[1]
getMonth(date) == CivilFromDays(date.day)[2] - 1
getDate(date) == CivilFromDays(date.day)[3]

DigitChars == <<"0", "1", "2", "3", "4", "5", "6", "7", "8", "9">>

\* String(n) for n >= 0
RECURSIVE String(_)
String(n) ==
  IF n < 10 THEN <<DigitChars[n + 1]>>
  ELSE Append(String(n \div 10), DigitChars[(n % 10) + 1])

\* s.padStart(2, '0')
padStart2(s) == IF Len(s) < 2 THEN <<"0">> \o s ELSE s

\* the date taken in another time zone, eight hours ahead
formatDateISO_UTC(date) ==
  LET shifted == DateOf(date.day + (date.sec + 8 * 3600) \div 86400, 0)
  IN String(getFullYear(shifted)) \o <<"-">>
       \o padStart2(String(getMonth(shifted) + 1)) \o <<"-">>
       \o padStart2(String(getDate(shifted)))

\* JournalNotionService.formatDateISO
formatDateISO(date) ==
  String(getFullYear(date)) \o <<"-">>
    \o padStart2(String(getMonth(date) + 1)) \o <<"-">>
    \o padStart2(String(getDate(date)))

----------------------------------------------------------------------------
(* parseVoiceMemoTimestamp.  A filename is a sequence of characters.       *)

RecordingNames ==
  << <<"2","0","2","6","0","1","1","0"," ","0","9","0","0","0","0","-","A",".","m","4","a">>,
     <<"2","0","2","6","0","1","1","0"," ","2","3","0","0","0","0","-","B",".","m","4","a">>,
     <<"2","0","2","6","0","1","1","1"," ","0","0","0","5","0","0","-","C",".","m","4","a">>,
     <<"m","e","m","o",".","m","4","a">>,
     <<"2","0","2","6","0","1","1","0","_","0","9","0","0","0","0",".","m","4","a">>,
     <<"2","0","2","6","0","1","1","0"," ","2","4","6","0","0","0","-","D",".","m","4","a">> >>

IsDigit(c) == \E i \in 1..10 : DigitChars[i] = c

DigitValue(c) == (CHOOSE i \in 1..10 : DigitChars[i] = c) - 1

\* +s for a string of digits
RECURSIVE ToNumber(_)
ToNumber(s) ==
  IF s = <<>> THEN 0
  ELSE 10 * ToNumber(SubSeq(s, 1, Len(s) - 1)) + DigitValue(s[Len(s)])

\* /^(\d{4})(\d{2})(\d{2}) (\d{2})(\d{2})(\d{2})/
MatchesTimestamp(filename) ==
  /\ Len(filename) >= 15
  /\ \A i \in 1..8 : IsDigit(filename[i])
  /\ filename[9] = " "
  /\ \A i \in 10..15 : IsDigit(filename[i])

parseVoiceMemoTimestamp(filename) ==
  IF ~MatchesTimestamp(filename) THEN NullDate
  ELSE NewDate(ToNumber(SubSeq(filename, 1, 4)),
               ToNumber(SubSeq(filename, 5, 6)) - 1,
               ToNumber(SubSeq(filename, 7, 8)),
               ToNumber(SubSeq(filename, 10, 11)),
               ToNumber(SubSeq(filename, 12, 13)),
               ToNumber(SubSeq(filename, 14, 15)))

\* the wall clock stands in for the creation time
recordedAtOf_WallClock(filename, birth, wallClock) ==
  IF parseVoiceMemoTimestamp(filename) = NullDate THEN wallClock
  ELSE parseVoiceMemoTimestamp(filename)

\* parseVoiceMemoTimestamp(filename) ?? (await stat(filePath)).birthtime
recordedAtOf(filename, birth, wallClock) ==
  IF parseVoiceMemoTimestamp(filename) = NullDate THEN birth
  ELSE parseVoiceMemoTimestamp(filename)

----------------------------------------------------------------------------
(* VoiceMemoJob.execute and processFile, one action per step.              *)

\* MAX_RETRIES: process.env.MAX_RETRIES || '3'
DefaultMaxRetries == 3

NullCtx == [file |-> "", text |-> 0, garbage |-> FALSE, err |-> "",
            issued |-> {}, noItems |-> FALSE]

\* the locals of processFile on entry
StartFile(f) == [NullCtx EXCEPT !.file = f]

NoRun == [all |-> {}, failed |-> {}]

NoSync == [valid |-> FALSE, itemsCreated |-> 0, itemsFailed |-> 0,
           success |-> TRUE]

SyncResultOf(r) == [valid |-> TRUE, itemsCreated |-> r.itemsCreated,
                    itemsFailed |-> r.itemsFailed, success |-> r.success]

NoRt == [step |-> "", outcomes |-> <<>>, done |-> FALSE, success |-> FALSE,
         ev |-> <<>>, error |-> <<>>]

Bump(count, f) == [count EXCEPT ![f] = Min(@ + 1, MaxSyncCount)]

\* the path of the state file, as the sequence of its parts
stateFile == <<"./state.json">>

\* the state file itself is written
tmpFile_InPlace(path) == path

\* `${this.stateFile}.tmp`
tmpFile(path) == Append(path, ".tmp")

\* join(tmpdir(), 'astra-scheduler-test', 'state.json')
testStateFile == <<"/tmp/astra-scheduler-test/state.json">>

StateFiles == {stateFile, testStateFile}

Paths == StateFiles \cup {tmpFile(path) : path \in StateFiles}

\* the two copies of the StateService class in the repository
Copies == {"part_023", "part_007"}

\* new StateService(): the default path
DefaultService == [stateFile |-> stateFile, copy |-> "part_023"]

\* a file that does not exist; a file holds the first written chunks of the
\* serialized document doc, all MaxChunks of them when it is complete
Missing == [exists |-> FALSE, doc |-> EmptyLedger, written |-> 0]

Truncated(doc) == [exists |-> TRUE, doc |-> doc, written |-> 0]

IsComplete(file) == file.exists /\ file.written = MaxChunks

InitSave == fs = [p \in Paths |-> Missing] /\ service = DefaultService

\* the creation times that stat reports, and the wall clock
BirthTimes == <<NewDate(2026, 0, 10, 12, 0, 0), NewDate(2026, 0, 12, 8, 0, 0)>>

WallClock == NewDate(2026, 0, 13, 10, 0, 0)

RecordingIds == 1..Len(RecordingNames)

InitJournal ==
  /\ pages = <<>>
  /\ entries = <<>>
  /\ birthtime = [r \in RecordingIds |-> BirthTimes[1]]
  /\ now = WallClock

\* the jobs that can be registered with the scheduler
JobNames == {"voiceMemo", "journalProcessing"}

InitSched ==
  /\ jobList = <<>>
  /\ intervals = <<>>
  /\ timers = [j \in JobNames |-> 0]
  /\ inflight = [j \in JobNames |-> 0]
  /\ invoked = [j \in JobNames |-> 0]
  /\ settled = [j \in JobNames |-> <<>>]
  /\ logged = {}
  /\ enabledAtStart = {}

InitCore ==
  /\ dir = {}
  /\ mem = EmptyLedger
  /\ disk = EmptyLedger
  /\ archiveDir = {}
  /\ failedDir = {}
  /\ invalidDir = {}
  /\ maxRetries = DefaultMaxRetries
  /\ batch = <<>>
  /\ ctx = NullCtx
  /\ items = <<>>
  /\ lastSync = NoSync
  /\ syncCount = [f \in Files |-> 0]
  /\ selected = NoRun
  /\ rt = NoRt

\* the execute calls of the voice memo job that the interval callback of
\* JobScheduler.start can have in flight at once
Invocations == 1..MaxInvocations

\* no execute call of the job is in flight
NoInvocation == [pc |-> "idle", batch |-> <<>>]

InitOverlap == runs = [r \in Invocations |-> NoInvocation]

InitSchema == schema = DefaultSchema

InitExt == InitSave /\ InitJournal /\ InitSched /\ InitOverlap /\ InitSchema

Init == InitCore /\ pc = "idle" /\ InitExt

\* the recordings that arrive while the pipeline runs
Incoming == {"a.m4a", "b.WAV"}

\* a file appears in the voice memo directory
AddFile(f) ==
  /\ f \notin dir
  /\ dir' = dir \cup {f}
  /\ UNCHANGED <<mem, disk, archiveDir, failedDir, invalidDir, maxRetries,
                 pc, batch, ctx, items, lastSync, syncCount, selected, rt>>
  /\ UNCHANGED extVars

\* the loop begins with the last file of the listing
Execute_LastFirst ==
  /\ pc = "idle"
  /\ LET newFiles == watch(mem, dir)
     IN /\ selected' = [all |-> Range(newFiles), failed |-> {}]
        /\ IF Len(newFiles) = 0
           THEN UNCHANGED <<pc, batch, ctx>>
           ELSE /\ pc' = "transcribe"
                /\ batch' = newFiles
                /\ ctx' = StartFile(newFiles[Len(newFiles)])
  /\ lastSync' = NoSync
  /\ UNCHANGED <<dir, mem, disk, archiveDir, failedDir, invalidDir,
                 maxRetries, items, syncCount, rt>>
  /\ UNCHANGED extVars

\* execute up to the first processFile
Execute ==
  /\ pc = "idle"
  /\ LET newFiles == watch(mem, dir)
     IN /\ selected' = [all |-> Range(newFiles), failed |-> {}]
        /\ IF Len(newFiles) = 0
           THEN UNCHANGED <<pc, batch, ctx>>
           ELSE /\ pc' = "transcribe"
                /\ batch' = newFiles
                /\ ctx' = StartFile(Head(newFiles))
  /\ lastSync' = NoSync
  /\ UNCHANGED <<dir, mem, disk, archiveDir, failedDir, invalidDir,
                 maxRetries, items, syncCount, rt>>
  /\ UNCHANGED extVars

\* the throw of processFile's try block, caught at line 101, with what the
\* recording's context is at the throw
Fail(c, reason) ==
  /\ pc' = "archiveFailed"
  /\ ctx' = [c EXCEPT !.err = reason]
  /\ selected' = [selected EXCEPT !.failed = @ \cup {c.file}]

\* processFile returns; the for loop of execute goes on
FinishFile ==
  /\ batch' = Tail(batch)
  /\ lastSync' = NoSync
  /\ IF Tail(batch) = <<>>
     THEN pc' = "idle" /\ ctx' = NullCtx
     ELSE pc' = "transcribe" /\ ctx' = StartFile(Head(Tail(batch)))

\* processFile up to the routing decision
Transcribe ==
  /\ pc = "transcribe"
  /\ \E outcomes \in SteadyOutcomes(StepKinds("transcribe"), maxRetries) :
       LET r == transcribe(outcomes, maxRetries, 0, <<>>)
       IN IF ~r.success
          THEN Fail(ctx, "Transcription failed")
          ELSE \E text \in 1..Len(Transcripts), isGarbage \in BOOLEAN :
                 /\ ctx' = [ctx EXCEPT !.text = text, !.garbage = isGarbage]
                 /\ pc' = IF detectIntent(Transcripts[text]) = "JOURNAL"
                          THEN "journal" ELSE "todoNote"
                 /\ UNCHANGED selected
  /\ UNCHANGED <<dir, mem, disk, archiveDir, failedDir, invalidDir,
                 maxRetries, batch, items, lastSync, syncCount, rt>>
  /\ UNCHANGED extVars

\* !syncResult.success && syncResult.itemsFailed === syncResult.itemsCreated
SyncFailedCompletely(syncResult) ==
  ~syncResult.success /\ syncResult.itemsFailed = syncResult.itemsCreated

\* the organizer's prompt is never taken for empty
noItemsFound_Never(organizationItems) == FALSE

\* organizationResult.items.length === 0
noItemsFound(organizationItems) == Len(organizationItems) = 0

\* processTodoNoteEntry: organize, then sync of a non-empty item list
ProcessTodoNoteEntry ==
  /\ pc = "todoNote"
  /\ \E outcomes \in SteadyOutcomes(StepKinds("organize"), maxRetries) :
       LET r == organize(outcomes, maxRetries, 0, <<>>)
           c1 == [ctx EXCEPT !.issued =
                    IF Calls(r.ev) > 0 THEN @ \cup {"organize"} ELSE @]
       IN IF ~r.success
          THEN /\ Fail(c1, "Organization failed")
               /\ UNCHANGED <<lastSync, syncCount>>
          ELSE \E its \in TodoLists :
                 IF noItemsFound(its)
                 THEN /\ pc' = "archive"
                      /\ ctx' = [c1 EXCEPT !.noItems = TRUE]
                      /\ UNCHANGED <<lastSync, syncCount, selected>>
                 ELSE \E outs \in [1..Len(its) ->
                                     SteadyOutcomes({"ok", "throw"}, maxRetries)] :
                        LET syncResult == sync(its, outs, maxRetries, 1,
                                               EmptySyncResult)
                            c2 == [c1 EXCEPT !.issued = @ \cup {"sync"},
                                             !.noItems = Len(its) = 0]
                        IN /\ lastSync' = SyncResultOf(syncResult)
                           /\ syncCount' = IF syncResult.itemsCreated > 0
                                           THEN Bump(syncCount, ctx.file)
                                           ELSE syncCount
                           /\ IF SyncFailedCompletely(syncResult)
                              THEN Fail(c2, "Notion sync failed completely")
                              ELSE /\ pc' = "archive"
                                   /\ ctx' = c2
                                   /\ UNCHANGED selected
  /\ UNCHANGED <<dir, mem, disk, archiveDir, failedDir, invalidDir,
                 maxRetries, batch, items, rt>>
  /\ UNCHANGED extVars

\* processJournalEntry: format, then syncEntry
ProcessJournalEntry ==
  /\ pc = "journal"
  /\ \E outcomes \in SteadyOutcomes(StepKinds("format"), maxRetries) :
       LET r == format(outcomes, maxRetries, 0, <<>>)
           c1 == [ctx EXCEPT !.issued =
                    IF Calls(r.ev) > 0 THEN @ \cup {"format"} ELSE @]
       IN IF ~r.success
          THEN /\ Fail(c1, "Journal formatting failed")
               /\ UNCHANGED syncCount
          ELSE \E outs \in SteadyOutcomes(StepKinds("syncEntry"), maxRetries) :
                 LET syncResult == syncEntry(outs, maxRetries, 0, <<>>)
                     c2 == [c1 EXCEPT !.issued =
                              IF Calls(syncResult.ev) > 0
                              THEN @ \cup {"syncEntry"} ELSE @]
                 IN IF ~syncResult.success
                    THEN /\ Fail(c2, "Journal sync failed")
                         /\ UNCHANGED syncCount
                    ELSE /\ pc' = "archive"
                         /\ ctx' = c2
                         /\ syncCount' = Bump(syncCount, ctx.file)
                         /\ UNCHANGED selected
  /\ UNCHANGED <<dir, mem, disk, archiveDir, failedDir, invalidDir,
                 maxRetries, batch, items, lastSync, rt>>
  /\ UNCHANGED extVars

\* this.archiveService.archive(filePath); copyFileSync may raise
Archive ==
  /\ pc = "archive"
  /\ \E copyOk \in BOOLEAN :
       IF copyOk
       THEN /\ archiveDir' = archiveDir \cup {ctx.file}
            /\ pc' = "commit"
            /\ UNCHANGED <<ctx, selected>>
       ELSE /\ Fail(ctx, "Archive failed")
            /\ UNCHANGED archiveDir
  /\ UNCHANGED <<dir, mem, disk, failedDir, invalidDir, maxRetries, batch,
                 items, lastSync, syncCount, rt>>
  /\ UNCHANGED extVars

\* state.markJobCompleted(this.name, filename); save() may raise after the
\* in-memory ledger was changed
Commit ==
  /\ pc = "commit"
  /\ mem' = markJobCompleted(mem, jobName, ctx.file)
  /\ \E saveOk \in BOOLEAN :
       IF saveOk
       THEN /\ disk' = mem'
            /\ FinishFile
            /\ UNCHANGED selected
       ELSE /\ Fail(ctx, "State save failed")
            /\ UNCHANGED <<disk, batch, lastSync>>
  /\ UNCHANGED <<dir, archiveDir, failedDir, invalidDir, maxRetries, items,
                 syncCount, rt>>
  /\ UNCHANGED extVars

\* a raise of the copy leaves processFile and ends execute
ArchiveFailed_Rethrows ==
  /\ pc = "archiveFailed"
  /\ \E copyOk \in BOOLEAN :
       IF copyOk
       THEN /\ failedDir' = failedDir \cup {ctx.file}
            /\ pc' = "commitFailed"
            /\ UNCHANGED <<batch, ctx, lastSync>>
       ELSE /\ pc' = "idle"
            /\ batch' = <<>>
            /\ ctx' = NullCtx
            /\ lastSync' = NoSync
            /\ UNCHANGED failedDir
  /\ UNCHANGED <<dir, mem, disk, archiveDir, invalidDir, maxRetries, items,
                 syncCount, selected, rt>>
  /\ UNCHANGED extVars

\* this.archiveService.archiveFailed(filePath); a raise skips markJobFailed
ArchiveFailed ==
  /\ pc = "archiveFailed"
  /\ \E copyOk \in BOOLEAN :
       IF copyOk
       THEN /\ failedDir' = failedDir \cup {ctx.file}
            /\ pc' = "commitFailed"
            /\ UNCHANGED <<batch, ctx, lastSync>>
       ELSE /\ FinishFile
            /\ UNCHANGED failedDir
  /\ UNCHANGED <<dir, mem, disk, archiveDir, invalidDir, maxRetries, items,
                 syncCount, selected, rt>>
  /\ UNCHANGED extVars

\* state.markJobFailed(this.name, filename, reason); whatever it raises is
\* caught and logged at line 107
CommitFailed ==
  /\ pc = "commitFailed"
  /\ IF markJobFailedThrows(mem, jobName, ctx.file)
     THEN UNCHANGED <<mem, disk>>
     ELSE /\ mem' = markJobFailed(mem, jobName, ctx.file, ctx.err)
          /\ \E saveOk \in BOOLEAN :
               IF saveOk THEN disk' = mem' ELSE UNCHANGED disk
  /\ FinishFile
  /\ UNCHANGED <<dir, archiveDir, failedDir, invalidDir, maxRetries, items,
                 syncCount, selected, rt>>
  /\ UNCHANGED extVars

\* the process dies; what it held in memory is lost
Crash ==
  /\ pc # "down"
  /\ pc' = "down"
  /\ mem' = EmptyLedger
  /\ batch' = <<>>
  /\ ctx' = NullCtx
  /\ lastSync' = NoSync
  /\ selected' = NoRun
  /\ UNCHANGED <<dir, disk, archiveDir, failedDir, invalidDir, maxRetries,
                 items, syncCount, rt>>
  /\ UNCHANGED extVars

\* a new process: the StateService constructor loads the state file
Restart ==
  /\ pc = "down"
  /\ pc' = "idle"
  /\ mem' = disk
  /\ UNCHANGED <<dir, disk, archiveDir, failedDir, invalidDir, maxRetries,
                 batch, ctx, items, lastSync, syncCount, selected, rt>>
  /\ UNCHANGED extVars

Next ==
  \/ \E f \in Incoming : AddFile(f)
  \/ Execute
  \/ Transcribe
  \/ ProcessTodoNoteEntry
  \/ ProcessJournalEntry
  \/ Archive
  \/ Commit
  \/ ArchiveFailed
  \/ CommitFailed
  \/ Crash
  \/ Restart

Spec == Init /\ [][Next]_vars

----------------------------------------------------------------------------
(* The ledger and the discovery pass driven call by call, as the unit      *)
(* tests drive them.                                                       *)

InitLedger == Init

\* the error messages processFile passes to markJobFailed
Reasons == {"Transcription failed", "Archive failed"}

\* the calls return normally: save() has written the document
MarkJobCompleted(n, f) ==
  /\ mem' = markJobCompleted(mem, n, f)
  /\ disk' = mem'
  /\ pc' = "idle"
  /\ batch' = <<>>
  /\ UNCHANGED <<dir, archiveDir, failedDir, invalidDir, maxRetries, ctx,
                 items, lastSync, syncCount, selected, rt>>
  /\ UNCHANGED extVars

MarkJobFailed(n, f, reason) ==
  /\ IF markJobFailedThrows(mem, n, f)
     THEN UNCHANGED <<mem, disk>>
     ELSE /\ mem' = markJobFailed(mem, n, f, reason)
          /\ disk' = mem'
  /\ pc' = "idle"
  /\ batch' = <<>>
  /\ UNCHANGED <<dir, archiveDir, failedDir, invalidDir, maxRetries, ctx,
                 items, lastSync, syncCount, selected, rt>>
  /\ UNCHANGED extVars

\* the job states handed to saveJobState: fresh object literals
JobStates ==
  {EmptyObject,
   [EmptyObject EXCEPT !["a.m4a"] = Str("completed"),
                       !["b.WAV"] = Str("in_progress"),
                       !["readme.txt"] = Str("completed")],
   [EmptyObject EXCEPT !["failed"] = Arr(<<"b.WAV">>)]}

SaveJobState(n, jobState) ==
  /\ mem' = saveJobState(mem, n, jobState)
  /\ disk' = mem'
  /\ pc' = "idle"
  /\ batch' = <<>>
  /\ UNCHANGED <<dir, archiveDir, failedDir, invalidDir, maxRetries, ctx,
                 items, lastSync, syncCount, selected, rt>>
  /\ UNCHANGED extVars

PutFile(f) ==
  /\ f \notin dir
  /\ dir' = dir \cup {f}
  /\ pc' = "idle"
  /\ batch' = <<>>
  /\ UNCHANGED <<mem, disk, archiveDir, failedDir, invalidDir, maxRetries,
                 ctx, items, lastSync, syncCount, selected, rt>>
  /\ UNCHANGED extVars

\* one discovery pass on the ledger as it stands; batch is what it returns
Watch ==
  /\ batch' = watch(mem, dir)
  /\ pc' = "watched"
  /\ UNCHANGED <<dir, mem, disk, archiveDir, failedDir, invalidDir,
                 maxRetries, ctx, items, lastSync, syncCount, selected, rt>>
  /\ UNCHANGED extVars

NextLedger ==
  \/ \E n \in Namespaces, f \in Files : MarkJobCompleted(n, f)
  \/ \E n \in Namespaces, f \in Files, reason \in Reasons :
       MarkJobFailed(n, f, reason)
  \/ \E n \in Namespaces, jobState \in JobStates : SaveJobState(n, jobState)
  \/ \E f \in Files : PutFile(f)
  \/ Watch

SpecLedger == InitLedger /\ [][NextLedger]_vars

----------------------------------------------------------------------------
(* StateService.save step by step, with the process dying at any point.    *)

\* a ledger call changes the in-memory state and enters save()
CallMarkJobCompleted(f) ==
  /\ pc = "idle"
  /\ mem' = markJobCompleted(mem, jobName, f)
  /\ pc' = "saveOpen"
  /\ UNCHANGED <<disk, fs>>

CallMarkJobFailed(f) ==
  /\ pc = "idle"
  /\ IF markJobFailedThrows(mem, jobName, f)
     THEN UNCHANGED <<mem, pc>>
     ELSE /\ mem' = markJobFailed(mem, jobName, f, "Archive failed")
          /\ pc' = "saveOpen"
  /\ UNCHANGED <<disk, fs>>

\* writeFileSync(tmpFile, ...): the file is created or truncated
SaveOpen ==
  /\ pc = "saveOpen"
  /\ fs' = [fs EXCEPT ![tmpFile(stateFile)] = Truncated(mem)]
  /\ pc' = "saveWrite"
  /\ UNCHANGED <<mem, disk>>

\* writeFileSync(tmpFile, ...): the next chunk reaches the file
SaveWrite ==
  /\ pc = "saveWrite"
  /\ fs' = [fs EXCEPT ![tmpFile(stateFile)].written = @ + 1]
  /\ pc' = IF fs[tmpFile(stateFile)].written + 1 = MaxChunks
           THEN "saveRename" ELSE "saveWrite"
  /\ UNCHANGED <<mem, disk>>

\* renameSync(tmpFile, this.stateFile)
renameSync(files, from, to) ==
  IF from = to THEN files
  ELSE [files EXCEPT ![to] = files[from], ![from] = Missing]

SaveRename ==
  /\ pc = "saveRename"
  /\ fs' = renameSync(fs, tmpFile(stateFile), stateFile)
  /\ disk' = mem
  /\ pc' = "idle"
  /\ UNCHANGED mem

\* the process dies, inside save() or outside of it
CrashSave ==
  /\ pc # "down"
  /\ pc' = "down"
  /\ mem' = EmptyLedger
  /\ UNCHANGED <<disk, fs>>

\* the constructor: load(), which saves an empty state when there is no file
\* and takes an unparsable file for an empty state
Load ==
  /\ pc = "down"
  /\ IF fs[stateFile].exists
     THEN /\ mem' = IF IsComplete(fs[stateFile]) THEN fs[stateFile].doc
                    ELSE EmptyLedger
          /\ pc' = "idle"
     ELSE /\ mem' = EmptyLedger
          /\ pc' = "saveOpen"
  /\ UNCHANGED <<disk, fs>>

SaveFrame ==
  UNCHANGED <<dir, archiveDir, failedDir, invalidDir, maxRetries, batch, ctx,
              items, lastSync, syncCount, selected, rt, service, journalVars,
              schedVars, overlapVars, schemaVars>>

InitSaveSpec == InitCore /\ InitExt /\ pc = "down"

NextSave ==
  \/ \E f \in Incoming : CallMarkJobCompleted(f) /\ SaveFrame
  \/ \E f \in Incoming : CallMarkJobFailed(f) /\ SaveFrame
  \/ SaveOpen /\ SaveFrame
  \/ SaveWrite /\ SaveFrame
  \/ SaveRename /\ SaveFrame
  \/ CrashSave /\ SaveFrame
  \/ Load /\ SaveFrame

SpecSave == InitSaveSpec /\ [][NextSave]_vars

----------------------------------------------------------------------------
(* StateService constructed on a path of the caller's choice, its calls    *)
(* running to their return, and the restart that constructs it anew.       *)

\* save() from its first line to its last: the document is written to the
\* temporary file, which is then renamed to the path
saved(files, path, doc) ==
  renameSync([files EXCEPT ![tmpFile(path)] =
                [exists |-> TRUE, doc |-> doc, written |-> MaxChunks]],
             tmpFile(path), path)

\* what load() leaves in this.state when the file exists
loaded(files, path) ==
  IF IsComplete(files[path]) THEN files[path].doc ELSE EmptyLedger

\* the path a mutating call saves to: this.save() writes this.stateFile in
\* part_023, this.save(STATE_FILE) writes './state.json' in part_007
saveTarget(svc) ==
  IF svc.copy = "part_007" THEN stateFile ELSE svc.stateFile

\* new StateService(path): load(), which saves an empty state to the path
\* when there is no file
Construct(path, copy) ==
  /\ pc = "down"
  /\ service' = [stateFile |-> path, copy |-> copy]
  /\ mem' = IF fs[path].exists THEN loaded(fs, path) ELSE EmptyLedger
  /\ fs' = IF fs[path].exists THEN fs ELSE saved(fs, path, EmptyLedger)
  /\ disk' = fs'[path].doc
  /\ pc' = "idle"

\* a mutating call from its entry to its return
Returned(jobs) ==
  /\ pc \in {"idle", "returned"}
  /\ mem' = jobs
  /\ fs' = saved(fs, saveTarget(service), jobs)
  /\ disk' = fs'[service.stateFile].doc
  /\ pc' = "returned"
  /\ UNCHANGED service

ReturnMarkJobCompleted(f) == Returned(markJobCompleted(mem, jobName, f))

ReturnMarkJobFailed(f, reason) ==
  /\ ~markJobFailedThrows(mem, jobName, f)
  /\ Returned(markJobFailed(mem, jobName, f, reason))

ReturnSaveJobState(jobState) == Returned(saveJobState(mem, jobName, jobState))

\* the process ends
Exit == CrashSave /\ UNCHANGED service

DurableFrame ==
  UNCHANGED <<dir, archiveDir, failedDir, invalidDir, maxRetries, batch, ctx,
              items, lastSync, syncCount, selected, rt, journalVars,
              schedVars, overlapVars, schemaVars>>

\* the identifiers handed to markJobCompleted: any string, the filenames and
\* the word 'failed' among them
Identifiers == Incoming \cup {"failed"}

NextDurable ==
  \/ \E path \in StateFiles, copy \in Copies :
       Construct(path, copy) /\ DurableFrame
  \/ \E f \in Identifiers : ReturnMarkJobCompleted(f) /\ DurableFrame
  \/ \E f \in Incoming, reason \in Reasons :
       ReturnMarkJobFailed(f, reason) /\ DurableFrame
  \/ \E jobState \in JobStates : ReturnSaveJobState(jobState) /\ DurableFrame
  \/ Exit /\ DurableFrame

SpecDurable == InitSaveSpec /\ [][NextDurable]_vars

----------------------------------------------------------------------------
(* JournalNotionService.syncEntry against the journal database, and the    *)
(* journal recordings of processFile handed to it one after the other.     *)

\* createDayPage: a page with the date property and the first entry
\* a day page created without the block run of the entry
DayPage_Empty(dateString) == [date |-> dateString, blocks |-> 0]

\* createDayPage: the new page is seeded with the block run of the entry
DayPage(dateString) == [date |-> dateString, blocks |-> 1]

\* a query that never finds a page
findTodayPage_Null(db, dateString) == 0

\* findTodayPage: the id of the first page whose date equals dateString, 0
\* for null; a page's id is its position in the database
findTodayPage(db, dateString) ==
  LET results == {i \in 1..Len(db) : db[i].date = dateString}
  IN IF results = {} THEN 0
     ELSE CHOOSE i \in results : \A k \in results : i <= k

JournalSyncResult(success, pageId, isNewPage, db) ==
  [success |-> success, pageId |-> pageId, isNewPage |-> isNewPage,
   db |-> db]

\* syncEntry on the database db.  Per attempt: ok, queryfail (the query
\* raises), writefail (the write raises and is not applied), writelost (the
\* write is applied and its response is lost, so the call raises)
RECURSIVE syncEntryOn(_, _, _, _, _)
syncEntryOn(db, timestamp, outcomes, max, attempt) ==
  IF attempt >= max THEN JournalSyncResult(FALSE, 0, FALSE, db)
  ELSE
    LET o == outcomes[attempt + 1]
        dateString == formatDateISO(timestamp)
        existingPageId == findTodayPage(db, dateString)
        written == IF existingPageId # 0
                   THEN [db EXCEPT ![existingPageId].blocks = @ + 1]
                   ELSE Append(db, DayPage(dateString))
    IN CASE o = "queryfail" ->
              syncEntryOn(db, timestamp, outcomes, max, attempt + 1)
         [] o = "writefail" ->
              syncEntryOn(db, timestamp, outcomes, max, attempt + 1)
         [] o = "writelost" ->
              syncEntryOn(written, timestamp, outcomes, max, attempt + 1)
         [] OTHER ->
              IF existingPageId # 0
              THEN JournalSyncResult(TRUE, existingPageId, FALSE, written)
              ELSE JournalSyncResult(TRUE, Len(db) + 1, TRUE, written)

\* the attempt outcomes tried: any first attempt followed by successes, and
\* the same failure on every attempt
JournalOutcomes(max) ==
  {o \in OutcomeSeqs({"ok", "queryfail", "writefail", "writelost"}, max) :
     \/ \A i \in 2..max : o[i] = "ok"
     \/ \A i \in 1..max : o[i] = o[1]}

\* the creation times of the recordings in the directory
BirthTimeMaps ==
  {[r \in RecordingIds |-> IF r = 4 THEN BirthTimes[1] ELSE BirthTimes[2]]}

InitJournalSpec ==
  /\ InitCore /\ pc = "idle" /\ InitSave /\ InitSched /\ InitOverlap
  /\ InitSchema
  /\ pages = <<>>
  /\ entries = <<>>
  /\ birthtime \in BirthTimeMaps
  /\ now = WallClock

\* processFile of a journal recording: its timestamp, then syncEntry
SyncJournalRecording(r) ==
  /\ Len(entries) < MaxEntries
  /\ \E outcomes \in JournalOutcomes(maxRetries) :
       LET recordedAt == recordedAtOf(RecordingNames[r], birthtime[r], now)
           syncResult == syncEntryOn(pages, recordedAt, outcomes,
                                     maxRetries, 0)
       IN /\ pages' = syncResult.db
          /\ entries' = Append(entries,
                               [rec |-> r, recordedAt |-> recordedAt,
                                success |-> syncResult.success,
                                pageId |-> syncResult.pageId,
                                isNewPage |-> syncResult.isNewPage])
  /\ UNCHANGED <<coreVars, saveVars, schedVars, overlapVars, schemaVars,
                 birthtime, now>>

NextJournal == \E r \in RecordingIds : SyncJournalRecording(r)

SpecJournal == InitJournalSpec /\ [][NextJournal]_vars

----------------------------------------------------------------------------
(* JobScheduler: register, start, stop, and the interval callbacks.  A     *)
(* timer is known by the job it was set for; timers[j] counts the active   *)
(* timers of job j and inflight[j] its execute calls not yet settled.      *)

\* what an execute call ends with: it resolves, or rejects with an Error
ExecuteOutcomes == {"ok", "Test error"}

\* the names of the enabled jobs of this.jobs, in order
EnabledJobs(list) ==
  LET enabled(job) == job.enabled
      name(job) == job.name
      kept == SelectSeq(list, enabled)
  IN [i \in 1..Len(kept) |-> kept[i].name]

Count(seq, x) == Cardinality({i \in 1..Len(seq) : seq[i] = x})

\* no timer is cleared
clearIntervals_None(active, held) == active

\* for (const interval of this.intervals) clearInterval(interval)
clearIntervals(active, held) ==
  [j \in JobNames |-> active[j] - Count(held, j)]

\* `Job ${job.name} failed: ${error.message}`
ErrorLine(name, message) == <<"Job ", name, " failed: ", message>>

\* the rejection is dropped
afterExecute_Silent(lines, name, outcome) == lines

\* the try/catch around await job.execute(...)
afterExecute(lines, name, outcome) ==
  IF outcome = "ok" THEN lines ELSE lines \cup {ErrorLine(name, outcome)}

register(name, enabled) ==
  /\ \A i \in 1..Len(jobList) : jobList[i].name # name
  /\ jobList' = Append(jobList, [name |-> name, enabled |-> enabled])
  /\ UNCHANGED <<intervals, timers, inflight, invoked, settled, logged,
                 enabledAtStart>>

start ==
  /\ Len(intervals) + Len(EnabledJobs(jobList)) <= MaxTimers
  /\ intervals' = intervals \o EnabledJobs(jobList)
  /\ timers' = [j \in JobNames |-> timers[j] + Count(EnabledJobs(jobList), j)]
  /\ enabledAtStart' = enabledAtStart \cup Range(EnabledJobs(jobList))
  /\ UNCHANGED <<jobList, inflight, invoked, settled, logged>>

stop ==
  /\ timers' = clearIntervals(timers, intervals)
  /\ intervals' = <<>>
  /\ enabledAtStart' = {}
  /\ UNCHANGED <<jobList, inflight, invoked, settled, logged>>

\* an interval fires: the callback calls job.execute
Tick(j) ==
  /\ timers[j] > 0
  /\ invoked[j] < MaxInvocations
  /\ invoked' = [invoked EXCEPT ![j] = @ + 1]
  /\ inflight' = [inflight EXCEPT ![j] = @ + 1]
  /\ UNCHANGED <<jobList, intervals, timers, settled, logged, enabledAtStart>>

\* an execute call settles and its callback ends
Settle(j, outcome) ==
  /\ inflight[j] > 0
  /\ inflight' = [inflight EXCEPT ![j] = @ - 1]
  /\ settled' = [settled EXCEPT ![j] = Append(@, outcome)]
  /\ logged' = afterExecute(logged, j, outcome)
  /\ UNCHANGED <<jobList, intervals, timers, invoked, enabledAtStart>>

SchedFrame ==
  UNCHANGED <<coreVars, saveVars, journalVars, overlapVars, schemaVars>>

NextSched ==
  \/ \E j \in JobNames, enabled \in BOOLEAN : register(j, enabled) /\ SchedFrame
  \/ start /\ SchedFrame
  \/ stop /\ SchedFrame
  \/ \E j \in JobNames : Tick(j) /\ SchedFrame
  \/ \E j \in JobNames, outcome \in ExecuteOutcomes :
       Settle(j, outcome) /\ SchedFrame

SpecSched == Init /\ [][NextSched]_vars

----------------------------------------------------------------------------
(* Overlapping invocations.  The interval callback of JobScheduler.start   *)
(* calls job.execute whenever the timer fires, whether or not an earlier   *)
(* call has settled; every call shares the one StateService and the one    *)
(* watch directory.  A call gives up control at each await of processFile. *)

\* the position of an execute call after the handling of a recording ended
Advance(run) ==
  IF Len(run.batch) <= 1 THEN NoInvocation
  ELSE [pc |-> "transcribe", batch |-> Tail(run.batch)]

OverlapFrame ==
  UNCHANGED <<invalidDir, maxRetries, pc, batch, ctx, items, lastSync,
              syncCount, selected, rt, saveVars, journalVars, schedVars,
              schemaVars>>

\* a discovery pass that leaves out what another execute call still holds
ExecuteIn_Guarded(r) ==
  /\ runs[r].pc = "idle"
  /\ LET held(f) == \E q \in Invocations \ {r} : f \in Range(runs[q].batch)
         free(f) == ~held(f)
         newFiles == SelectSeq(watch(mem, dir), free)
     IN /\ newFiles # <<>>
        /\ runs' = [runs EXCEPT ![r] = [pc |-> "transcribe",
                                       batch |-> newFiles]]
  /\ UNCHANGED <<dir, mem, disk, archiveDir, failedDir>>

\* the timer fires: execute runs its discovery pass and enters the for loop
ExecuteIn(r) ==
  /\ runs[r].pc = "idle"
  /\ LET newFiles == watch(mem, dir)
     IN /\ newFiles # <<>>
        /\ runs' = [runs EXCEPT ![r] = [pc |-> "transcribe",
                                       batch |-> newFiles]]
  /\ UNCHANGED <<dir, mem, disk, archiveDir, failedDir>>

\* the awaited steps of processFile, transcription to sync, end with the
\* recording ready for the archive or with an error caught
ProcessIn(r) ==
  /\ runs[r].pc = "transcribe"
  /\ \E ok \in BOOLEAN :
       runs' = [runs EXCEPT ![r].pc = IF ok THEN "commit" ELSE "commitFailed"]
  /\ UNCHANGED <<dir, mem, disk, archiveDir, failedDir>>

\* archive(filePath); markJobCompleted(this.name, filename)
CommitIn(r) ==
  /\ runs[r].pc = "commit"
  /\ archiveDir' = archiveDir \cup {Head(runs[r].batch)}
  /\ mem' = markJobCompleted(mem, jobName, Head(runs[r].batch))
  /\ disk' = mem'
  /\ runs' = [runs EXCEPT ![r] = Advance(runs[r])]
  /\ UNCHANGED <<dir, failedDir>>

\* archiveFailed(filePath); markJobFailed(this.name, filename, reason)
CommitFailedIn(r) ==
  /\ runs[r].pc = "commitFailed"
  /\ failedDir' = failedDir \cup {Head(runs[r].batch)}
  /\ IF markJobFailedThrows(mem, jobName, Head(runs[r].batch))
     THEN UNCHANGED <<mem, disk>>
     ELSE /\ mem' = markJobFailed(mem, jobName, Head(runs[r].batch),
                                  "Transcription failed")
          /\ disk' = mem'
  /\ runs' = [runs EXCEPT ![r] = Advance(runs[r])]
  /\ UNCHANGED <<dir, archiveDir>>

NextOverlap ==
  \/ \E f \in Incoming : AddFile(f)
  \/ \E r \in Invocations : ExecuteIn(r) /\ OverlapFrame
  \/ \E r \in Invocations : ProcessIn(r) /\ OverlapFrame
  \/ \E r \in Invocations : CommitIn(r) /\ OverlapFrame
  \/ \E r \in Invocations : CommitFailedIn(r) /\ OverlapFrame

SpecOverlap == Init /\ [][NextOverlap]_vars

----------------------------------------------------------------------------
(* Routing of one transcription.  The transcriber's response carries an    *)
(* intent next to the transcription; processFile routes the result.        *)

\* what the intent field of a well-typed response can hold: a valid intent,
\* another string, or nothing
RawIntents == {"TODO", "NOTE", "JOURNAL", "REMINDER", "todo", "undefined"}

validIntents == {"TODO", "NOTE", "JOURNAL"}

\* the responses whose transcription, confidence and isGarbage are well typed
\* the transcripts of the routing runs: one more with the journal keyword
RouteTranscripts ==
  Append(Transcripts, <<"J", "o", "u", "r", "n", "a", "l", ":", " ", "x">>)

\* the length of the match of /^(to[\s-]?do|note|journal)/i, 0 for none
KeywordLength(text) ==
  CASE MatchAt(text, 1, <<"t", "o">>) /\ ClassAt(text, 3, {"-"})
         /\ MatchAt(text, 4, <<"d", "o">>) -> 5
    [] MatchAt(text, 1, <<"t", "o", "d", "o">>) -> 4
    [] MatchAt(text, 1, <<"n", "o", "t", "e">>) -> 4
    [] MatchAt(text, 1, <<"j", "o", "u", "r", "n", "a", "l">>) -> 7
    [] OTHER -> 0

\* the length of the match of [,.:!?\s]* from position i on
RECURSIVE SeparatorRun(_, _)
SeparatorRun(text, i) ==
  IF ClassAt(text, i, {",", ".", ":", "!", "?"})
  THEN 1 + SeparatorRun(text, i + 1) ELSE 0

\* transcript.trim().replace(/^(to[\s-]?do|note|journal)[,.:!?\s]*/i, '')
\*           .trim()
stripPrefixKeyword(transcript) ==
  LET text == trim(transcript)
      k == KeywordLength(text)
  IN IF k = 0 THEN text
     ELSE trim(SubSeq(text, k + SeparatorRun(text, k + 1) + 1, Len(text)))

\* the text processFile hands to the first step of the branch: format gets
\* the stripped transcript, organize the transcript as it is
handedText(branch, transcript) ==
  IF branch = "journal" THEN stripPrefixKeyword(transcript) ELSE transcript

TranscriptionResponses ==
  [transcription : 1..Len(RouteTranscripts), intent : RawIntents,
   isGarbage : BOOLEAN]

\* an intent that is missing or invalid becomes JOURNAL
parseTranscriptionResponse(response) ==
  [response EXCEPT !.intent = IF @ \in validIntents THEN @ ELSE "JOURNAL"]

\* the result transcribe returns for a parsed response
TranscriptionResultOf(parsed) ==
  [success |-> TRUE, text |-> parsed.transcription, intent |-> parsed.intent,
   isGarbage |-> parsed.isGarbage]

\* the branch of processFile: the intent is detectIntent of the text
BranchOf(intent) == IF intent = "JOURNAL" THEN "journal" ELSE "todoNote"

routeOf(transcriptionResult) ==
  BranchOf(detectIntent(RouteTranscripts[transcriptionResult.text]))

InitRoute ==
  /\ InitCore
  /\ pc = "idle"
  /\ InitExt

RouteFrame ==
  UNCHANGED <<dir, mem, disk, archiveDir, failedDir, invalidDir, maxRetries,
              pc, batch, ctx, items, lastSync, syncCount, selected, extVars>>

\* the transcriber answers: transcribe parses the response and returns
ReceiveTranscription(response) ==
  /\ rt.step = ""
  /\ rt' = [step |-> "route", done |-> FALSE, response |-> response,
            result |-> TranscriptionResultOf(
                         parseTranscriptionResponse(response)),
            branch |-> "", handed |-> <<>>]
  /\ RouteFrame

\* processFile detects the intent and enters one of the two branches
Route ==
  /\ rt.step = "route"
  /\ ~rt.done
  /\ rt' = [rt EXCEPT !.done = TRUE, !.branch = routeOf(rt.result),
                      !.handed = handedText(routeOf(rt.result),
                                            RouteTranscripts[rt.result.text])]
  /\ RouteFrame

NextRoute ==
  \/ \E response \in TranscriptionResponses : ReceiveTranscription(response)
  \/ Route

SpecRoute == InitRoute /\ [][NextRoute]_vars

----------------------------------------------------------------------------
(* One retry loop run on chosen attempt outcomes.                          *)

InitRetry ==
  /\ dir = {}
  /\ mem = EmptyLedger
  /\ disk = EmptyLedger
  /\ archiveDir = {}
  /\ failedDir = {}
  /\ invalidDir = {}
  /\ maxRetries \in 0..MaxRetriesBound
  /\ pc = "idle"
  /\ batch = <<>>
  /\ ctx = NullCtx
  /\ items = <<>>
  /\ lastSync = NoSync
  /\ syncCount = [f \in Files |-> 0]
  /\ selected = NoRun
  /\ \E step \in Steps :
       \E outcomes \in OutcomeSeqs(StepKinds(step), maxRetries) :
         rt = [NoRt EXCEPT !.step = step, !.outcomes = outcomes]
  /\ InitExt

Run(step) ==
  /\ rt.step = step
  /\ ~rt.done
  /\ LET r == RunStep(step, rt.outcomes, maxRetries)
     IN rt' = [rt EXCEPT !.done = TRUE, !.success = r.success, !.ev = r.ev,
                         !.error = r.error]
  /\ UNCHANGED <<dir, mem, disk, archiveDir, failedDir, invalidDir,
                 maxRetries, pc, batch, ctx, items, lastSync, syncCount,
                 selected>>
  /\ UNCHANGED extVars

RunTranscribe == Run("transcribe")
RunTranscribePlain == Run("transcribePlain")
RunOrganize == Run("organize")
RunFormat == Run("format")
RunSyncEntry == Run("syncEntry")
RunCreateItem == Run("createItem")

NextRetry ==
  \/ RunTranscribe
  \/ RunTranscribePlain
  \/ RunOrganize
  \/ RunFormat
  \/ RunSyncEntry
  \/ RunCreateItem

SpecRetry == InitRetry /\ [][NextRetry]_vars

----------------------------------------------------------------------------
(* NotionSyncService.sync run on a chosen item list.                       *)

InitSync ==
  /\ dir = {}
  /\ mem = EmptyLedger
  /\ disk = EmptyLedger
  /\ archiveDir = {}
  /\ failedDir = {}
  /\ invalidDir = {}
  /\ maxRetries \in 0..MaxRetriesBound
  /\ pc = "idle"
  /\ batch = <<>>
  /\ ctx = NullCtx
  /\ items \in ItemLists
  /\ lastSync = NoSync
  /\ syncCount = [f \in Files |-> 0]
  /\ selected = NoRun
  /\ rt = [NoRt EXCEPT !.step = "sync"]
  /\ InitSave /\ InitJournal /\ InitSched /\ InitOverlap
  /\ schema \in Schemas

\* rt.outcomes[i] is what the destination does on the create calls of item
\* i, rt.ev[i] the number of create calls issued for item i
RunSync ==
  /\ rt.step = "sync"
  /\ ~rt.done
  /\ \E outs \in [1..Len(items) -> ThrowThenOk(maxRetries)] :
       LET r == sync(items, outs, maxRetries, 1, EmptySyncResult)
       IN /\ lastSync' = SyncResultOf(r)
          /\ rt' = [rt EXCEPT !.done = TRUE, !.success = r.success,
                              !.outcomes = outs, !.ev = r.calls]
  /\ UNCHANGED <<dir, mem, disk, archiveDir, failedDir, invalidDir,
                 maxRetries, pc, batch, ctx, items, syncCount, selected>>
  /\ UNCHANGED extVars

NextSync == RunSync

SpecSync == InitSync /\ [][NextSync]_vars

----------------------------------------------------------------------------
(* Claims *)

\* C1: in any execution of execute runs, crashes and restarts, the
\* destination sync of one filename is carried out to completion at most
\* once.
C1_SyncAtMostOnce == \A f \in Files : syncCount[f] <= 1

\* C2: once a filename is recorded as completed or as failed in the ledger
\* under the job namespace, no discovery pass returns it.
C2_TerminalNeverReselected ==
  \A f \in Files :
    f \in CompletedIn(mem, jobName) \cup FailedIn(mem, jobName)
      => f \notin Range(watch(mem, dir))

\* C3: a discovery pass returns exactly the audio files of the directory
\* minus the filenames recorded as completed or as failed.
C3_SelectionIsExact ==
  pc = "watched" =>
    Range(batch) = {f \in dir : isAudioFile(f)}
                     \ (CompletedIn(mem, jobName) \cup FailedIn(mem, jobName))

\* C4: a filename is never recorded both as completed and as failed under
\* one namespace (its terminal status, once recorded, is the only one).
C4_OneTerminalStatus ==
  \A n \in Namespaces : CompletedIn(mem, n) \cap FailedIn(mem, n) = {}

\* C5: when execute has returned, every recording of its batch is recorded
\* as completed or failed, and every recording whose processing failed is in
\* the failed or the invalid archive.
C5_NeverSilentlyDropped ==
  pc = "idle" =>
    /\ selected.all \subseteq
         CompletedIn(mem, jobName) \cup FailedIn(mem, jobName)
    /\ selected.failed \subseteq failedDir \cup invalidDir

\* C6: for a recording whose transcription returned isGarbage true no
\* organize, format or sync call is issued, and once its handling is past
\* the transcription the file is in the invalid archive.
C6_GarbageShortCircuit ==
  ctx.garbage =>
    /\ ctx.issued = {}
    /\ pc \notin {"journal", "todoNote"} => ctx.file \in invalidDir

InvalidTodos(its) ==
  {i \in 1..Len(its) : /\ its[i].type = "TODO"
                       /\ its[i].priority \notin SchemaPriorities}

\* C7: a TODO item whose priority is not in the priority enumeration gets
\* no create call and is counted in itemsFailed.
C7_ValidationGate ==
  (rt.step = "sync" /\ rt.done) =>
    /\ \A i \in InvalidTodos(items) : rt.ev[i] = 0
    /\ lastSync.itemsFailed >= Cardinality(InvalidTodos(items))
    /\ lastSync.itemsCreated <= Len(items) - Cardinality(InvalidTodos(items))

C7_Witness ==
  /\ rt.step = "sync" /\ rt.done
  /\ maxRetries >= 1
  /\ InvalidTodos(items) # {}
  /\ lastSync.itemsCreated >= 1
  /\ lastSync.itemsFailed = Cardinality(InvalidTodos(items))

\* C8: when the sync created at least one item while another item raised,
\* the recording is not treated as failed by the sync.
C8_PartialSuccessTolerated ==
  (lastSync.valid /\ ~lastSync.success /\ lastSync.itemsCreated >= 1)
    => pc \in {"archive", "commit"} \/ ctx.err # "Notion sync failed completely"

\* C9: when the sync of a non-empty item list created no item, the
\* recording takes the failure path and is not committed completed.
C9_AllFailedIsFailure ==
  (lastSync.valid /\ lastSync.itemsCreated = 0)
    => /\ pc \in {"archiveFailed", "commitFailed"}
       /\ ctx.file \notin CompletedIn(mem, jobName)

AllFail(outcomes) == \A i \in 1..Len(outcomes) : outcomes[i] # "ok"

\* the number of loop iterations begun in the first k events
AttemptIndex(ev, k) == Attempts(SubSeq(ev, 1, k))

SleptAfter(ev, i) ==
  \E k \in 1..Len(ev) : ev[k].e = "sleep" /\ AttemptIndex(ev, k) = i

\* the failures after which a step goes to its next attempt at once
NoSleepKinds(step) ==
  CASE step = "transcribe" -> {"empty", "badjson"}
    [] step \in {"transcribePlain", "organize", "format"} -> {"empty"}
    [] OTHER -> {}

\* the whole query-then-write operation is one call of syncEntry
StepCalls(step, ev) == IF step = "syncEntry" THEN Attempts(ev) ELSE Calls(ev)

StepErrors == {"Transcription failed", "Organization failed",
               "Journal formatting failed", "Journal sync failed"}

\* C11: when a step of processFile has failed, the recording is copied to
\* the failed archive and markJobFailed is called for it before processFile
\* returns, and from the failure on neither the processed archive nor the
\* completed entries of the ledger change.
C11_StepFailureHandling ==
  [][(pc \in {"archiveFailed", "commitFailed"} /\ ctx.err \in StepErrors
        /\ pc' # "down")
       => /\ pc = "archiveFailed"
               => (pc' = "commitFailed" /\ ctx.file \in failedDir')
          /\ archiveDir' = archiveDir
          /\ CompletedIn(mem', jobName) = CompletedIn(mem, jobName)]_vars

\* the keyword variants, in lower case
Keywords ==
  { <<"t", "o", "d", "o">>, <<"t", "o", " ", "d", "o">>,
    <<"t", "o", "-", "d", "o">>, <<"n", "o", "t", "e">> }

StartsWith(s, lit) ==
  /\ Len(lit) <= Len(s)
  /\ \A k \in 1..Len(lit) : Lower(s[k]) = lit[k]

\* the trimmed transcript begins with a keyword
LeadingKeyword(t) == \E k \in Keywords : StartsWith(trim(t), k)

\* the trimmed transcript begins with a keyword that is followed by a comma,
\* a colon, a period or white space
KeywordThenSeparator(t) ==
  \E k \in Keywords :
    /\ StartsWith(trim(t), k)
    /\ Len(trim(t)) > Len(k)
    /\ trim(t)[Len(k) + 1] \in {",", ":", ".", " ", "\t", "\n"}

ExtractCalls == {"organize", "sync"}
JournalCalls == {"format", "syncEntry"}

C19_ImplicitNamespace ==
  [][\A n \in Namespaces, f \in Files :
       (~mem[n].present /\ \E reason \in Reasons : MarkJobFailed(n, f, reason))
         => f \in FailedIn(mem', n)]_vars

\* C20: when processFile returns from the copy to the failed archive (the
\* copy raised), the recording is recorded as failed in the ledger.
C20_CopyFailureStillCommits ==
  [][(pc = "archiveFailed" /\ pc' \in {"idle", "transcribe"})
       => ctx.file \in FailedIn(mem', jobName)]_vars

\* C14: whenever the file at the state path changes, it becomes the complete
\* serialization of the state being saved; at every instant, crashes inside
\* save() included, it is missing or complete.
C14_AtomicLedgerWrite ==
  [][/\ fs'[stateFile].exists => IsComplete(fs'[stateFile])
     /\ fs'[stateFile] # fs[stateFile] => fs'[stateFile].doc = mem]_vars

C14_Witness ==
  /\ pc = "down"
  /\ IsComplete(fs[stateFile])
  /\ fs[tmpFile(stateFile)].exists
  /\ ~IsComplete(fs[tmpFile(stateFile)])
  /\ fs[tmpFile(stateFile)].doc # fs[stateFile].doc

\* C12: any two journal recordings synced successfully, one after the
\* other, have the same destination page exactly when their timestamps are
\* on the same calendar day.
C12_DateDayIsolation ==
  \A i \in 1..Len(entries), j \in 1..Len(entries) :
    (i < j /\ entries[i].success /\ entries[j].success)
      => ( entries[i].pageId = entries[j].pageId
           <=> entries[i].recordedAt.day = entries[j].recordedAt.day )

C12_Witness ==
  /\ Len(entries) = 3
  /\ entries[1].rec = 1 /\ entries[2].rec = 2 /\ entries[3].rec = 3
  /\ \A i \in 1..3 : entries[i].success
  /\ entries[1].pageId = entries[2].pageId
  /\ entries[3].pageId # entries[1].pageId
  /\ entries[3].isNewPage

\* the recordings whose filename begins with a date-time, and the time it
\* reads: 2026-01-10 is day 20463
ExpectedStamps ==
  [r \in {1, 2, 3, 6} |->
     CASE r = 1 -> DateOf(20463, 9 * 3600)
       [] r = 2 -> DateOf(20463, 23 * 3600)
       [] r = 3 -> DateOf(20464, 5 * 60)
       [] r = 6 -> DateOf(20464, 3600)]

\* C18: the timestamp of a recording whose filename holds no date-time is
\* the creation time of the file and not the wall clock; the timestamp of a
\* recording whose filename holds one is the time it reads.
C18_TimestampFallback ==
  \A i \in 1..Len(entries) :
    LET e == entries[i]
    IN IF e.rec \in DOMAIN ExpectedStamps
       THEN e.recordedAt = ExpectedStamps[e.rec]
       ELSE e.recordedAt = birthtime[e.rec] /\ e.recordedAt # now

C18_Witness ==
  /\ Len(entries) >= 2
  /\ entries[1].rec = 4
  /\ entries[1].recordedAt = BirthTimes[1]
  /\ entries[1].pageId = 1
  /\ entries[2].rec = 1
  /\ entries[2].pageId = 1
  /\ ~entries[2].isNewPage

\* C16: an execute call begins only for a job that was enabled at a start()
\* not yet followed by a stop(); stop() leaves the calls in flight as they
\* are, and every call begun is in flight or has run to its end.
C16_StartStop ==
  [][/\ \A j \in JobNames :
          /\ invoked'[j] # invoked[j] => j \in enabledAtStart
          /\ invoked'[j] = inflight'[j] + Len(settled'[j])
     /\ stop => (inflight' = inflight /\ settled' = settled)]_vars

C16_Witness ==
  /\ Len(jobList) = 2
  /\ ~jobList[1].enabled /\ invoked[jobList[1].name] = 0
  /\ jobList[2].enabled /\ inflight[jobList[2].name] = 1
  /\ Len(settled[jobList[2].name]) = 1
  /\ intervals = <<>>
  /\ enabledAtStart = {}
  /\ \A j \in JobNames : timers[j] = 0

\* C17: when an execute call of a job rejects, the line 'Job <name> failed:
\* <message>' is logged, and the timers, those of the job included, stay as
\* they are, so that every job is invoked again on its ticks.
C17_FailureIsolation ==
  [][\A j \in JobNames :
       (Len(settled'[j]) = Len(settled[j]) + 1
          /\ settled'[j][Len(settled'[j])] # "ok")
       => /\ ErrorLine(j, settled'[j][Len(settled'[j])]) \in logged'
          /\ timers' = timers
          /\ intervals' = intervals
          /\ \A k \in JobNames \ {j} :
               inflight'[k] = inflight[k] /\ settled'[k] = settled[k]]_vars

C17_Witness ==
  /\ settled["voiceMemo"] = <<"Test error", "ok">>
  /\ settled["journalProcessing"] = <<"ok">>
  /\ ErrorLine("voiceMemo", "Test error") \in logged
  /\ timers["voiceMemo"] = 1

\* the handling of the recording at the head of the batch ends and the for
\* loop of execute goes on with the next one, or execute returns
NextRecording ==
  /\ batch' = Tail(batch)
  /\ IF Tail(batch) = <<>> THEN pc' = "idle"
     ELSE pc' = "transcribe" /\ ctx'.file = Head(Tail(batch))

\* C21: from the commit, the copy to the failed archive or the failed
\* commit of a recording, whatever raises there, processFile goes on with
\* the failure path of the same recording or returns, and execute then
\* handles the next recording of the batch.
C21_FinishFailureContained ==
  [][(pc \in {"commit", "archiveFailed", "commitFailed"} /\ pc' # "down")
       => \/ /\ batch' = batch
             /\ ctx'.file = ctx.file
             /\ pc' \in {"commit", "archiveFailed", "commitFailed"}
          \/ NextRecording]_vars

C21_Witness ==
  /\ pc = "transcribe"
  /\ batch = <<"b.WAV">>
  /\ "a.m4a" \in selected.failed
  /\ "a.m4a" \notin failedDir
  /\ "a.m4a" \notin FailedIn(mem, jobName)

\* C22: a recording recorded as completed is in the processed archive; and
\* when the copy to the processed archive has raised, the recording is, at
\* the return of processFile, in the failed archive and recorded as failed
\* and not as completed.
C22_CompletedOnlyAfterArchive ==
  [][/\ CompletedIn(mem', jobName) \subseteq archiveDir'
     /\ ( /\ ctx.err = "Archive failed"
          /\ pc \in {"archiveFailed", "commitFailed"}
          /\ pc' \in {"idle", "transcribe"} )
        => /\ ctx.file \in failedDir'
           /\ ctx.file \in FailedIn(mem', jobName)
           /\ ctx.file \notin CompletedIn(mem', jobName)]_vars

\* what a step records for the recordings other than the one being handled
OthersUntouched ==
  \A f \in Files \ {ctx.file} :
    /\ f \in archiveDir' <=> f \in archiveDir
    /\ f \in failedDir' <=> f \in failedDir
    /\ syncCount'[f] = syncCount[f]
    /\ f \in CompletedIn(mem', jobName) <=> f \in CompletedIn(mem, jobName)
    /\ f \in FailedIn(mem', jobName) <=> f \in FailedIn(mem, jobName)

\* C25: the batch of an execute is the discovery listing; the recording
\* being handled is the head of what is left of it, a step records nothing
\* for another recording, and the batch only loses its head, when the
\* handling of that recording has ended.
C25_ListingOrderOneAtATime ==
  [][/\ pc' \notin {"idle", "down"}
          => (batch' # <<>> /\ ctx'.file = Head(batch'))
     /\ (pc = "idle" /\ pc' = "transcribe") => batch' = watch(mem, dir)
     /\ (pc \notin {"idle", "down"} /\ pc' # "down")
          => /\ OthersUntouched
             /\ batch' = batch \/ NextRecording]_vars

C25_Witness ==
  /\ pc = "commit"
  /\ batch = <<"b.WAV">>
  /\ ctx.file = "b.WAV"
  /\ selected.all = {"a.m4a", "b.WAV"}
  /\ "a.m4a" \in CompletedIn(mem, jobName)
  /\ "a.m4a" \in archiveDir

\* the text occurs as a value, or in an array value, of the job state
HoldsReason(jobs, n, reason) ==
  /\ jobs[n].present
  /\ \E k \in Keys : \/ jobs[n].js[k] = Str(reason)
                     \/ reason \in Range(jobs[n].js[k].a)

\* C23: after markJobFailed(n, f, reason) has returned, the job state of n
\* holds the reason, in memory and in the persisted document.
C23_FailedCarriesReason ==
  [][\A n \in Namespaces, f \in Files, reason \in Reasons :
       (~markJobFailedThrows(mem, n, f) /\ MarkJobFailed(n, f, reason))
         => /\ f \in FailedIn(mem', n)
            /\ HoldsReason(mem', n, reason)
            /\ HoldsReason(disk', n, reason)]_vars

\* C24 as stated: two execute calls in flight never hold the same recording
\* in their batches.
C24_NoOverlapAsStated ==
  \A r, q \in Invocations :
    r # q => Range(runs[r].batch) \cap Range(runs[q].batch) = {}

\* C24: the ledger is the only guard between overlapping execute calls: a
\* discovery pass selects every audio file of the watch directory that is
\* not recorded as completed, whether or not another call in flight holds
\* it, and no file that is recorded as completed.
C24_LedgerIsTheOnlyGuard ==
  [][\A r \in Invocations :
       (runs[r].pc = "idle" /\ runs'[r].pc # "idle")
         => \A f \in Files :
              f \in Range(runs'[r].batch)
                <=> ( /\ f \in dir
                      /\ isAudioFile(f)
                      /\ f \notin CompletedIn(mem, jobName) )]_vars

C24_Witness ==
  /\ runs[1] = [pc |-> "commit", batch |-> <<"a.m4a">>]
  /\ runs[2] = [pc |-> "transcribe", batch |-> <<"a.m4a">>]
  /\ "b.WAV" \in dir
  /\ "b.WAV" \in CompletedIn(mem, jobName)

\* C26: once a transcription result has been routed, the branch taken is
\* the branch of the intent the result carries, whatever its text begins
\* with.
C26_HintIsAuthoritative ==
  (rt.step = "route" /\ rt.done)
    => rt.branch = BranchOf(rt.result.intent)

\* the steps that call a provider over HTTP
HttpSteps == {"transcribe", "transcribePlain", "organize", "format"}

\* C27: in every step that calls a provider over HTTP, an attempt answered
\* with status 400 is the last one: the step ends there with a failure
\* result, without a backoff sleep and without another attempt.
C27_PermanentErrorsShortCircuit ==
  (rt.step \in HttpSteps /\ rt.done)
    => \A i \in 1..Attempts(rt.ev) :
         rt.outcomes[i] = "http400"
           => /\ Attempts(rt.ev) = i
              /\ ~SleptAfter(rt.ev, i)
              /\ ~rt.success

\* C28: in a transcription step, an attempt answered with status 429 or
\* 500 is followed by a backoff sleep and another attempt while attempts
\* remain, and by a failure result when it was the last attempt.
C28_ThrottlingAndServerErrorsRetried ==
  (rt.step \in {"transcribe", "transcribePlain"} /\ rt.done)
    => \A i \in 1..Attempts(rt.ev) :
         rt.outcomes[i] \in {"http429", "http500"}
           => IF i < maxRetries
              THEN SleptAfter(rt.ev, i) /\ Attempts(rt.ev) >= i + 1
              ELSE ~rt.success

\* the malformed outputs of a successful HTTP response, per step
Malformed(step) ==
  IF step \in {"transcribe", "organize"} THEN {"empty", "badjson"}
  ELSE {"empty"}

\* C29: in a step that calls a provider over HTTP, an attempt whose
\* response has no text or an unparsable body is followed by another
\* attempt while attempts remain; a success result never comes from such an
\* attempt; and when it was the last attempt the result is a failure whose
\* error is the message of that attempt.
C29_MalformedOutputRetried ==
  (rt.step \in HttpSteps /\ rt.done)
    => /\ \A i \in 1..Attempts(rt.ev) :
            rt.outcomes[i] \in Malformed(rt.step)
              => IF i < maxRetries
                 THEN Attempts(rt.ev) >= i + 1
                 ELSE /\ ~rt.success
                      /\ rt.error = ErrorMessage(rt.step, rt.outcomes[i])
       /\ rt.success
            => /\ Attempts(rt.ev) >= 1
               /\ rt.outcomes[Attempts(rt.ev)] \notin Malformed(rt.step)
               /\ rt.error = <<>>

C29_Witness ==
  /\ rt.step = "organize"
  /\ rt.done
  /\ maxRetries = 3
  /\ rt.outcomes = <<"http500", "empty", "badjson">>
  /\ ~rt.success
  /\ rt.error = <<"Invalid JSON response from AI">>
  /\ Attempts(rt.ev) = 3

\* the items whose priority (TODO) or given category (NOTE) is outside the
\* enumeration of the destination
InvalidItems(its) ==
  InvalidTodos(its)
    \cup {i \in 1..Len(its) : /\ its[i].type = "NOTE"
                              /\ its[i].category # ""
                              /\ its[i].category \notin SchemaCategories}

\* every create call of item i raised
Raised(i) ==
  /\ maxRetries >= 1
  /\ \A k \in 1..maxRetries : rt.outcomes[i][k] = "throw"

\* C30: when sync returns, every item of the list has been handled: an
\* invalid item had no create call, a valid item had its create calls
\* whatever happened to the items before it, itemsCreated + itemsFailed is
\* the number of items, and success is false exactly when the create calls
\* of some valid item raised.
C30_SiblingsNeverBlocked ==
  (rt.step = "sync" /\ rt.done)
    => /\ Len(rt.ev) = Len(items)
       /\ \A i \in 1..Len(items) :
            IF i \in InvalidItems(items) THEN rt.ev[i] = 0
            ELSE maxRetries >= 1 => rt.ev[i] >= 1
       /\ lastSync.itemsCreated + lastSync.itemsFailed = Len(items)
       /\ ~lastSync.success
            <=> \E i \in 1..Len(items) \ InvalidItems(items) : Raised(i)

C30_Witness ==
  /\ rt.step = "sync" /\ rt.done
  /\ maxRetries = 2
  /\ Len(items) = 3
  /\ InvalidTodos(items) = {1}
  /\ rt.ev = <<0, 2, 1>>
  /\ Raised(2)
  /\ lastSync.itemsCreated = 1
  /\ lastSync.itemsFailed = 2
  /\ ~lastSync.success

\* C31: when sync returns, the page submitted for every item that had a
\* create call carries a priority of the priority enumeration (todo
\* database) or a category of the category enumeration (notes database).
C31_SubmittedValuesInSchema ==
  (rt.step = "sync" /\ rt.done)
    => \A i \in 1..Len(items) :
         rt.ev[i] >= 1
           => LET record == recordOf(items[i])
              IN IF record.database = "todo"
                 THEN record.name \in schema.priorities
                 ELSE record.name \in schema.categories

\* the items for which a create call was issued and the last one succeeded
CreatedByCall ==
  {i \in 1..Len(items) : rt.ev[i] >= 1 /\ ~Raised(i)}

\* C32: whatever the maximum number of attempts, zero included, the items
\* counted in itemsCreated when sync returns are items for which a create
\* call was issued and succeeded.
C32_CreatedOnlyAfterCall ==
  (rt.step = "sync" /\ rt.done)
    => lastSync.itemsCreated <= Cardinality(CreatedByCall)

\* the block runs the pages of a database hold
RECURSIVE BlockRuns(_)
BlockRuns(db) ==
  IF db = <<>> THEN 0 ELSE Head(db).blocks + BlockRuns(Tail(db))

\* the attempts syncEntry runs: up to the first that succeeds
AttemptsRun(outcomes) ==
  LET oks == {i \in 1..Len(outcomes) : outcomes[i] = "ok"}
  IN IF oks = {} THEN Len(outcomes)
     ELSE CHOOSE i \in oks : \A k \in oks : i <= k

\* the attempts run whose write was applied although the call raised
LostWrites(outcomes) ==
  Cardinality({i \in 1..AttemptsRun(outcomes) : outcomes[i] = "writelost"})

\* the step is a syncEntry, of the recording of the new entry, under the
\* attempt outcomes
IsSyncUnder(outcomes) ==
  /\ Len(entries') = Len(entries) + 1
  /\ \E i \in 1..Len(outcomes) : outcomes[i] = "ok"
  /\ LET entry == entries'[Len(entries')]
         syncResult == syncEntryOn(pages, entry.recordedAt, outcomes,
                                   maxRetries, 0)
     IN /\ pages' = syncResult.db
        /\ entry.success = syncResult.success
        /\ entry.pageId = syncResult.pageId

\* C33: a successful syncEntry none of whose attempts failed after its
\* write was applied adds the block run of the entry exactly once; when one
\* attempt failed after its write was applied, the retry queries again and
\* writes again, and the page of the day holds the block run twice.
C33_WholeOperationRetry ==
  [][(Len(entries') = Len(entries) + 1 /\ entries'[Len(entries')].success)
       => \A outcomes \in JournalOutcomes(maxRetries) :
            IsSyncUnder(outcomes)
              => LET pageId == entries'[Len(entries')].pageId
                     before == IF pageId <= Len(pages)
                               THEN pages[pageId].blocks ELSE 0
                 IN /\ BlockRuns(pages') =
                         BlockRuns(pages) + 1 + LostWrites(outcomes)
                    /\ pages'[pageId].blocks =
                         before + 1 + LostWrites(outcomes)
                    /\ LostWrites(outcomes) = 0
                         => pages'[pageId].blocks = before + 1
                    /\ LostWrites(outcomes) = 1
                         => pages'[pageId].blocks = before + 2]_vars

C33_Witness ==
  /\ Len(entries) = 2
  /\ entries[1].success /\ entries[1].isNewPage
  /\ entries[2].success /\ ~entries[2].isNewPage
  /\ entries[2].pageId = entries[1].pageId
  /\ Len(pages) = 1
  /\ pages[1].blocks = 3

\* C34: the journal database never holds two pages with the same date.
C34_OnePagePerDay ==
  \A i, j \in 1..Len(pages) : pages[i].date = pages[j].date => i = j

C34_Witness ==
  /\ Len(entries) = 1
  /\ entries[1].success
  /\ ~entries[1].isNewPage
  /\ Len(pages) = 1
  /\ pages[1].blocks = 2

\* the text begins, after trimming and ignoring case, with an intent keyword
HasKeywordPrefix(t) ==
  \E k \in Keywords \cup {<<"j", "o", "u", "r", "n", "a", "l">>} :
    StartsWith(trim(t), k)

\* C35: the text handed to organize or to format does not begin with an
\* intent keyword.
C35_KeywordStrippedDownstream ==
  (rt.step = "route" /\ rt.done) => ~HasKeywordPrefix(rt.handed)

\* the recording in hand went through an extraction that found no item
EmptyExtraction(c) == "organize" \in c.issued /\ c.noItems

\* C36: when the extraction succeeds with an empty item list, no destination
\* sync call is issued for the recording, the recording goes on to the
\* archive step, its copy lands in the processed archive and the commit
\* records it as completed, in memory and in the state file.
C36_EmptyListSkipsSync ==
  [][ /\ (pc = "todoNote" /\ EmptyExtraction(ctx') /\ pc' # "down")
           => /\ pc' = "archive"
              /\ "sync" \notin ctx'.issued
              /\ syncCount' = syncCount
              /\ lastSync' = NoSync
      /\ (pc = "archive" /\ EmptyExtraction(ctx) /\ pc' = "commit")
           => (ctx.file \in archiveDir' /\ "sync" \notin ctx.issued)
      /\ (pc = "commit" /\ EmptyExtraction(ctx) /\ pc' \in {"idle", "transcribe"})
           => /\ ctx.file \in archiveDir
              /\ isJobProcessed(mem', jobName, ctx.file)
              /\ disk' = mem'
              /\ syncCount' = syncCount ]_vars

C36_Witness ==
  /\ pc = "commit"
  /\ EmptyExtraction(ctx)
  /\ "sync" \notin ctx.issued
  /\ ctx.file \in archiveDir
  /\ syncCount[ctx.file] = 0

\* C37: a start() invokes the execute of every enabled job at once, before
\* any of its intervals has fired.
C37_ExecutedOnStartup ==
  [][Len(intervals') > Len(intervals)
       => \A j \in Range(EnabledJobs(jobList)) : invoked'[j] > invoked[j]]_vars

\* the ledger records the value 'completed' for the key under the namespace
RecordedCompleted(jobs, n, k) ==
  /\ jobs[n].present
  /\ jobs[n].js[k].t = "str"
  /\ jobs[n].js[k].s = "completed"

\* C38: isJobProcessed(n, f) is true exactly when the ledger records f under
\* n with the value 'completed' (false for an unknown namespace, an unknown
\* filename and any other value), and a discovery pass returns exactly the
\* listed audio files for which it is false.
C38_ProcessedIffCompleted ==
  /\ \A n \in Namespaces, k \in Keys :
       isJobProcessed(mem, n, k) <=> RecordedCompleted(mem, n, k)
  /\ pc = "watched" =>
       Range(batch) = {f \in dir : isAudioFile(f)
                                   /\ ~RecordedCompleted(mem, jobName, f)}

C38_Witness ==
  /\ pc = "watched"
  /\ mem[jobName].present
  /\ mem[jobName].js["b.WAV"] = Str("in_progress")
  /\ "b.WAV" \in Range(batch)
  /\ ~mem["journalProcessing"].present
  /\ ~isJobProcessed(mem, "journalProcessing", "b.WAV")

\* C39: a markJobCompleted(n, f) or markJobFailed(n, f, r), for any
\* identifier f, leaves the status of every other filename under n as it
\* was and removes no entry recorded earlier, completed or failed.
C39_EntriesNeverDeleted ==
  [][\A f \in Identifiers :
       ( \/ ReturnMarkJobCompleted(f)
         \/ \E reason \in Reasons : ReturnMarkJobFailed(f, reason) )
       => /\ \A g \in Files \ {f} :
               /\ g \in CompletedIn(mem', jobName)
                    <=> g \in CompletedIn(mem, jobName)
               /\ g \in FailedIn(mem', jobName) <=> g \in FailedIn(mem, jobName)
          /\ CompletedIn(mem, jobName) \subseteq CompletedIn(mem', jobName)
          /\ FailedIn(mem, jobName) \subseteq FailedIn(mem', jobName)]_vars

\* C40: after a markJobCompleted, markJobFailed or saveJobState has returned
\* on a StateService constructed with a path, a new StateService constructed
\* on that path would hold the same ledger state.
C40_DurableAtOwnPath ==
  pc = "returned" => loaded(fs, service.stateFile) = mem

====
